---- MODULE Spec2Model ----
(***************************************************************************)
(* Model of the ai-quota plugin (quota gate, admin surface) and of the     *)
(* callback-driven redis client it uses.                                   *)
(*   plugins/wasm-go/extensions/ai-proxy/config/config.go  (plugin)        *)
(*   plugins/wasm-go/pkg/wrapper/redis_wrapper.go          (client)        *)
(* Strings that cross the store boundary are sequences of one-character    *)
(* strings, so that formatting (fmt.Sprint) and parsing (strconv.Atoi) are *)
(* computed and not assumed.                                               *)
(***************************************************************************)
EXTENDS Integers, Sequences, FiniteSets, Bags, TLC

\* ---------------------------------------------------------------- bounds
MaxReqs == 2            \* chat-completion requests in one behaviour of Spec
MaxDeduct == 3          \* chat-completion requests in one behaviour of SpecDeduct
MaxMixed == 2           \* requests of any kind in one behaviour of SpecAdmin
MaxTorn == 2            \* chat-completion requests in one behaviour of SpecTeardown
MaxStar == 2            \* requests of any kind in one behaviour of SpecStar
MaxCallers == 2         \* operations of the client in one behaviour of SpecClient
MaxInitQuota == 2       \* largest counter value present in the initial store
MaxDelta == 1           \* admin requests in one behaviour of SpecDelta
IntBits == 8            \* bits of the int type in the model

Users == {"u1"}

\* ------------------------------------------------------- text <-> integer
DigitChars == <<"0", "1", "2", "3", "4", "5", "6", "7", "8", "9">>

IsDigit(c) == \E i \in 1..10 : DigitChars[i] = c

DigitVal(c) == (CHOOSE i \in 1..10 : DigitChars[i] = c) - 1

RECURSIVE FormatNat(_)
FormatNat(n) ==
    IF n < 10 THEN <<DigitChars[n + 1]>>
    ELSE FormatNat(n \div 10) \o <<DigitChars[(n % 10) + 1]>>

\* fmt.Sprint(arg) of an int argument, as respString encodes it
Sprint(n) == IF n < 0 THEN <<"-">> \o FormatNat(0 - n) ELSE FormatNat(n)

RECURSIVE ParseNat(_, _)
ParseNat(s, acc) ==
    IF s = <<>> THEN acc ELSE ParseNat(Tail(s), acc * 10 + DigitVal(Head(s)))

AllDigits(s) == Len(s) > 0 /\ \A i \in 1..Len(s) : IsDigit(s[i])

\* the int type: two's complement of IntBits bits
MinInt == 0 - 2 ^ (IntBits - 1)
MaxInt == 2 ^ (IntBits - 1) - 1

\* the value an int variable holds after an arithmetic result n is stored in it
WrapInt(n) == ((n - MinInt) % (2 ^ IntBits)) + MinInt

\* strconv.Atoi: optional sign, then decimal digits, within the range of int;
\* anything else fails
AtoiOk(s) ==
    IF Len(s) > 0 /\ s[1] = "-"
    THEN AllDigits(Tail(s)) /\ 0 - ParseNat(Tail(s), 0) >= MinInt
    ELSE IF Len(s) > 0 /\ s[1] = "+"
    THEN AllDigits(Tail(s)) /\ ParseNat(Tail(s), 0) <= MaxInt
    ELSE AllDigits(s) /\ ParseNat(s, 0) <= MaxInt

Atoi(s) ==
    IF s[1] = "-" THEN 0 - ParseNat(Tail(s), 0)
    ELSE IF s[1] = "+" THEN ParseNat(Tail(s), 0)
    ELSE ParseNat(s, 0)

StrTrue == <<"t", "r", "u", "e">>
StrFalse == <<"f", "a", "l", "s", "e">>
StrJunk == <<"a", "b", "c">>
StrOK == <<"O", "K">>

\* ------------------------------------------------------------ resp values
ErrorValue == [t |-> "error", s |-> <<>>, n |-> 0]
NullValue == [t |-> "null", s |-> <<>>, n |-> 0]
BulkValue(s) == [t |-> "bulk", s |-> s, n |-> 0]
IntegerValue(n) == [t |-> "integer", s |-> <<>>, n |-> n]
ArrayValue(a) == [t |-> "array", s |-> a, n |-> 0]
SimpleValue(s) == [t |-> "simple", s |-> s, n |-> 0]

\* resp.Value.String(): the text of a string value, "" for null
ValueString(v) == IF v.t \in {"bulk", "simple"} THEN v.s ELSE <<>>

\* variant: no reply is recognised as an error
IsRedisErrorResponseNever(v) == FALSE
IsRedisErrorResponse(v) == v.t = "error"

\* ------------------------------------------------------------------ store
KeyKinds == {"total", "used", "star"}
Keys == [k : KeyKinds, u : Users]

\* config.RedisKeyPrefix / RedisUsedPrefix / RedisStarPrefix + userId
Key(kind, u) == [k |-> kind, u |-> u]

Absent == [present |-> FALSE, s |-> <<>>]
Stored(s) == [present |-> TRUE, s |-> s]
Counter(n) == Stored(Sprint(n))

\* the integer a key holds for the store's arithmetic (absent = 0)
StoreIntOk(e) == ~e.present \/ AtoiOk(e.s)
StoreInt(e) == IF e.present THEN Atoi(e.s) ELSE 0

VARIABLES
    store,          \* redis: key -> entry
    starCache,      \* config.starCache: user -> "none" | "true" | "false"
    ready,          \* RedisClusterClient.ready
    checkGithubStar,\* config.CheckGithubStar
    reqs,           \* bag of HTTP transactions: the context of each, the redis
                    \* calls it has in flight and the outcome observed so far
    initial,        \* the store as it was when the plugin started
    args,           \* the arguments of the function under evaluation
    result,         \* what the function returned for them
    checkReadyFunc, \* RedisClusterClient.checkReadyFunc: "unset" | "deferred" | "ok"
    metrics         \* globalRedisMetrics

vars == <<store, starCache, ready, checkGithubStar, reqs, initial, args, result,
          checkReadyFunc, metrics>>

\* ---------------------------------------------------------- configuration
\* model_quota_weights of the documented example; unlisted models weigh 0
ModelQuotaWeights == [m \in {"gpt-4"} |-> 2]
Models == {"gpt-4", "claude-3"}

DeductHeaderValue == "user"
DeductHeaders == {"absent", "user", "other"}

\* processQuotaLogic: weight of the model named in the body, 0 if not configured
QuotaWeight(model) ==
    IF model \in DOMAIN ModelQuotaWeights THEN ModelQuotaWeights[model] ELSE 0

\* doQuotaCheck: shouldDeduct := err == nil && header == config.DeductHeaderValue
ShouldDeduct(hdr) == hdr = DeductHeaderValue

\* ------------------------------------------------------ per-request record
\* Context of one HTTP transaction.  mode, phase, userId, model, total, used
\* are what the handlers and closures hold; calls are its redis calls in
\* flight; the other fields record what was observed of the request.
NotSeen == [t |-> "none", s |-> <<>>, n |-> 0]

NewReq(mode) ==
    [mode |-> mode, phase |-> "headers", userId |-> "", model |-> "", param |-> <<>>,
     adminHdr |-> [present |-> FALSE, value |-> ""],
     snap |-> Absent,
     shouldDeduct |-> FALSE, total |-> 0, used |-> 0, newUsed |-> 0,
     calls |-> {},
     ret |-> "", resumed |-> 0, resp |-> <<>>,
     issued |-> 0, incrIssued |-> 0, syncErrs |-> 0, writes |-> 0,
     checked |-> FALSE, starSeen |-> "none", errs |-> {}, cached |-> FALSE,
     gone |-> FALSE, dropped |-> {}, invoked |-> 0, hadEntry |-> FALSE,
     seen |-> [total |-> NotSeen, used |-> NotSeen, caller |-> NotSeen],
     atGone |-> [issued |-> 0, syncErrs |-> 0, resumed |-> 0, resp |-> 0]]

NoData == [quota |-> 0, star |-> <<>>]

\* sendJSONResponse(statusCode, code, message, success, data)
SendData(rq, status, code, data) ==
    [rq EXCEPT !.resp = Append(@, [status |-> status, code |-> code, data |-> data])]

SendJSON(rq, status, code) == SendData(rq, status, code, NoData)

\* proxywasm.ResumeHttpRequest()
Resume(rq) == [rq EXCEPT !.resumed = @ + 1]

\* ------------------------------------------------------------ redis client
\* the argument of a command: none (GET), an integer (INCRBY, DECRBY) or a
\* text (SET), already encoded by respString
NoArg == [n |-> 0, s |-> <<>>]
IntArg(n) == [n |-> n, s |-> Sprint(n)]
TextArg(s) == [n |-> 0, s |-> s]

NewCall(n, cont, cmd, key, arg) ==
    [n |-> n, cont |-> cont, cmd |-> cmd, key |-> key, arg |-> arg,
     st |-> "pending", status |-> 0, reply |-> NullValue]

\* variant: the command is dispatched without asking checkReadyFunc
ClientOpNoReadyCheck(rq, cont, cmd, key, arg, rdy, initOk, dispOk) ==
    [err |-> ~dispOk,
     entered |-> TRUE,
     ready |-> (rdy \/ initOk),
     rq |-> IF ~dispOk THEN [rq EXCEPT !.syncErrs = @ + 1]
            ELSE [rq EXCEPT !.issued = @ + 1,
                            !.incrIssued = IF cmd = "incrby" THEN @ + 1 ELSE @,
                            !.calls = @ \cup {NewCall(rq.issued + 1, cont, cmd, key, arg)}]]

\* checkReadyFunc followed by redisCallInternal.  initOk is the outcome of the
\* deferred proxywasm.RedisInit, dispOk that of proxywasm.DispatchRedisCall.
\* Returns the error flag, whether redisCallInternal was entered, the client's
\* ready flag and the request record holding the call put in flight.
ClientOp(rq, cont, cmd, key, arg, rdy, initOk, dispOk) ==
    LET err == (~rdy /\ ~initOk) \/ ~dispOk
    IN  [err |-> err,
         entered |-> (rdy \/ initOk),
         ready |-> (rdy \/ initOk),
         rq |-> IF err THEN [rq EXCEPT !.syncErrs = @ + 1]
                ELSE [rq EXCEPT !.issued = @ + 1,
                                !.incrIssued = IF cmd = "incrby" THEN @ + 1 ELSE @,
                                !.calls = @ \cup {NewCall(rq.issued + 1, cont, cmd, key, arg)}]]

\* a handler step that does not use the client
NoOp(rq, rdy) == [err |-> FALSE, entered |-> FALSE, ready |-> rdy, rq |-> rq]

\* ---------------------------------------------------------- star cache
\* checkStarCache: a hit only for an entry that exists and is true
CheckStarCache(cache, u) == cache[u] = "true"

\* setStarCache(userId, hasStar)
SetStarCache(cache, u, hasStar) ==
    IF hasStar THEN [cache EXCEPT ![u] = "true"] ELSE [cache EXCEPT ![u] = "none"]

\* deleteStarCache(userId)
DeleteStarCache(cache, u) == [cache EXCEPT ![u] = "none"]

\* -------------------------------------------------------- completion gate
\* handleUsedQuotaResponseWithRetry: remainingQuota >= quotaWeight
\* variant: the comparison is off by one
SufficientQuotaOffByOne(total, used, weight) == total - used >= weight - 1
SufficientQuota(total, used, weight) == total - used >= weight

\* handleCompletionQuota callback: !IsNull() && String() == "true"
\* variant: any stored flag passes
HasStarAnyValue(v) == v.t # "null"
HasStar(v) == v.t # "null" /\ ValueString(v) = StrTrue

\* handleQuotaDeductionResponse: newUsedQuota < quotaWeight is inconsistent
\* variant: the returned value is not checked
DeductionUnchecked(newUsed, weight) == TRUE
DeductionConsistent(newUsed, weight) == newUsed >= weight

\* variant: the request is resumed before the total is read
DoQuotaCheckAfterResume(rq, hdr, rdy, initOk, dispOk) ==
    ClientOp(Resume([rq EXCEPT !.shouldDeduct = ShouldDeduct(hdr)]), "total", "get",
             Key("total", rq.userId), NoArg, rdy, initOk, dispOk)
\* doQuotaCheck: shouldDeduct is computed, and both of its branches issue
\* the same GET of the total
DoQuotaCheck(rq, hdr, rdy, initOk, dispOk) ==
    ClientOp([rq EXCEPT !.shouldDeduct = ShouldDeduct(hdr)], "total", "get",
             Key("total", rq.userId), NoArg, rdy, initOk, dispOk)

\* variant: the quota check runs whatever the weight
ProcessQuotaLogicAlwaysCheck(rq, hdr, rdy, initOk, dispOk) ==
    DoQuotaCheck(rq, hdr, rdy, initOk, dispOk)
ProcessQuotaLogic(rq, hdr, rdy, initOk, dispOk) ==
    IF QuotaWeight(rq.model) = 0 THEN NoOp(Resume(rq), rdy)
    ELSE DoQuotaCheck(rq, hdr, rdy, initOk, dispOk)

\* handleCompletionQuota, up to the dispatch of its first call
HandleCompletionQuotaBody(rq, cache, gating, hdr, rdy, initOk, dispOk) ==
    IF gating
    THEN IF CheckStarCache(cache, rq.userId)
         THEN ProcessQuotaLogic(rq, hdr, rdy, initOk, dispOk)
         ELSE ClientOp(rq, "star", "get", Key("star", rq.userId), NoArg,
                       rdy, initOk, dispOk)
    ELSE ProcessQuotaLogic(rq, hdr, rdy, initOk, dispOk)

\* the types.Action handleCompletionQuota returns
HandleCompletionQuotaAction(rq, gating) ==
    IF ~gating /\ QuotaWeight(rq.model) = 0 THEN "Continue" ELSE "Pause"

\* ------------------------------------------------------------ token header
\* A token header: absent, or a value with or without the "Bearer " prefix
\* around a token text.  A token text is empty, unparsable, or a JWT whose
\* payload may carry the claims universal_id and id.
NoClaim == ""
Jwt(uid, legacy) == [raw |-> "jwt", parsable |-> TRUE, universal_id |-> uid, id |-> legacy]
EmptyToken == [raw |-> "", parsable |-> FALSE, universal_id |-> NoClaim, id |-> NoClaim]
GarbageToken == [raw |-> "garbage", parsable |-> FALSE, universal_id |-> NoClaim, id |-> NoClaim]
Tokens ==
    {EmptyToken, GarbageToken, Jwt(NoClaim, NoClaim)}
    \cup {Jwt(u, NoClaim) : u \in Users} \cup {Jwt(NoClaim, u) : u \in Users}
TokenHeaders ==
    {[present |-> FALSE, bearer |-> FALSE, token |-> EmptyToken]}
    \cup [present : {TRUE}, bearer : BOOLEAN, token : Tokens]

\* extractTokenFromHeader: strip "Bearer " if present, trim
ExtractTokenFromHeader(h) == h.token

\* parseUserInfoFromToken + AuthUser: only the claim universal_id is read
UserInfoID(tok) == tok.universal_id

\* the header value is the empty text: no prefix and no token
HeaderEmpty(h) == ~h.bearer /\ h.token.raw = ""

\* variant: the identity read from the token is not checked
CompletionHeadersResultAnyId(h) ==
    LET rq == NewReq("completion")
        token == ExtractTokenFromHeader(h)
        fail(code) == [SendJSON(rq, 401, code) EXCEPT !.ret = "Continue"]
    IN  IF ~h.present \/ HeaderEmpty(h) THEN fail("ai-gateway.no_token")
        ELSE IF token.raw = "" THEN fail("ai-gateway.invalid_token")
        ELSE IF ~token.parsable THEN fail("ai-gateway.token_parse_failed")
        ELSE [rq EXCEPT !.userId = UserInfoID(token),
                        !.phase = "buffering", !.ret = "HeaderStopIteration"]

\* onHttpRequestHeaders, completion mode: the request record it leaves
CompletionHeadersResult(h) ==
    LET rq == NewReq("completion")
        token == ExtractTokenFromHeader(h)
        fail(code) == [SendJSON(rq, 401, code) EXCEPT !.ret = "Continue"]
    IN  IF ~h.present \/ HeaderEmpty(h) THEN fail("ai-gateway.no_token")
        ELSE IF token.raw = "" THEN fail("ai-gateway.invalid_token")
        ELSE IF ~token.parsable THEN fail("ai-gateway.token_parse_failed")
        ELSE IF UserInfoID(token) = "" THEN fail("ai-gateway.no_userid")
        ELSE [rq EXCEPT !.userId = UserInfoID(token),
                        !.phase = "buffering", !.ret = "HeaderStopIteration"]

\* ------------------------------------------------------ error classification
\* texts are sequences of characters
ConnectionWords ==
    {<<"c", "o", "n", "n", "e", "c", "t", "i", "o", "n">>,
     <<"c", "o", "n", "n", "e", "c", "t">>,
     <<"d", "i", "a", "l">>}
TimeoutWords ==
    {<<"t", "i", "m", "e", "o", "u", "t">>,
     <<"d", "e", "a", "d", "l", "i", "n", "e">>}
AuthWords ==
    {<<"a", "u", "t", "h">>,
     <<"a", "u", "t", "h", "e", "n", "t", "i", "c", "a", "t", "i", "o", "n">>,
     <<"p", "a", "s", "s", "w", "o", "r", "d">>}
ProtocolWords ==
    {<<"p", "r", "o", "t", "o", "c", "o", "l">>,
     <<"p", "a", "r", "s", "e">>,
     <<"i", "n", "v", "a", "l", "i", "d">>}
NetworkWords ==
    {<<"n", "e", "t", "w", "o", "r", "k">>,
     <<"i", "o">>,
     <<"b", "r", "o", "k", "e", "n", " ", "p", "i", "p", "e">>}

\* containsAny(s, substrings)
ContainsAny(s, substrings) ==
    \E sub \in substrings :
        /\ Len(s) >= Len(sub)
        /\ \E i \in 0..(Len(s) - Len(sub)) : SubSeq(s, i + 1, i + Len(sub)) = sub

NoErr == [present |-> FALSE, msg |-> <<>>]
Err(msg) == [present |-> TRUE, msg |-> msg]

RedisError(type, retryable, temporary) ==
    [type |-> type, retryable |-> retryable, temporary |-> temporary]

\* classifyRedisError(status, err, operation, key)
ClassifyRedisError(status, err) ==
    IF status # 0
    THEN CASE status = 1 -> RedisError("connection", TRUE, TRUE)
           [] status = 2 -> RedisError("timeout", TRUE, TRUE)
           [] status = 3 -> RedisError("auth", FALSE, FALSE)
           [] OTHER -> RedisError("network", TRUE, TRUE)
    ELSE IF err.present
    THEN IF ContainsAny(err.msg, ConnectionWords) THEN RedisError("connection", TRUE, TRUE)
         ELSE IF ContainsAny(err.msg, TimeoutWords) THEN RedisError("timeout", TRUE, TRUE)
         ELSE IF ContainsAny(err.msg, AuthWords) THEN RedisError("auth", FALSE, FALSE)
         ELSE IF ContainsAny(err.msg, ProtocolWords) THEN RedisError("protocol", FALSE, TRUE)
         ELSE IF ContainsAny(err.msg, NetworkWords) THEN RedisError("network", TRUE, TRUE)
         ELSE RedisError("unknown", TRUE, TRUE)
    ELSE RedisError("unknown", TRUE, TRUE)

\* the error redisCallInternal hands to the callback for a response with the
\* given status, GetRedisCallResponse error and outcome of rd.ReadValue()
\* ("ok", "eof" for io.EOF, "bad" for any other parse error)
ResponseError(status, err, parse) ==
    IF status # 0 \/ err.present
    THEN [failed |-> TRUE, err |-> ClassifyRedisError(status, err)]
    ELSE IF parse = "bad"
    THEN [failed |-> TRUE, err |-> RedisError("protocol", FALSE, FALSE)]
    ELSE [failed |-> FALSE, err |-> RedisError("none", FALSE, FALSE)]

\* host error texts tried, among them texts holding words of two classes
ErrTexts ==
    {<<"d", "i", "a", "l", " ", "t", "c", "p">>,
     <<"c", "o", "n", "n", "e", "c", "t", " ", "t", "i", "m", "e", "o", "u", "t">>,
     <<"d", "e", "a", "d", "l", "i", "n", "e">>,
     <<"a", "u", "t", "h", " ", "f", "a", "i", "l", "e", "d">>,
     <<"i", "n", "v", "a", "l", "i", "d", " ", "p", "a", "s", "s", "w", "o", "r", "d">>,
     <<"p", "r", "o", "t", "o", "c", "o", "l">>,
     <<"p", "a", "r", "s", "e">>,
     <<"i", "n", "v", "a", "l", "i", "d">>,
     <<"b", "r", "o", "k", "e", "n", " ", "p", "i", "p", "e">>,
     <<"i", "o">>,
     <<"n", "e", "t", "w", "o", "r", "k">>,
     <<"o", "o", "p", "s">>,
     <<>>}

MaxStatus == 4

\* ------------------------------------------------------------------ metrics
\* the zero value of RedisMetrics
NoMetrics == [total |-> 0, success |-> 0, failed |-> 0, retries |-> 0]

\* DefaultRetryConfig.MaxRetries, the policy of every command of the client
MaxRetries == 3

\* the transport status of the calls that fail under the plugin: timeout
FailStatuses == {2}

\* redisCallInternal: shouldRetry := redisErr.Retryable && attempt < config.MaxRetries
ShouldRetry(status, attempt) ==
    ClassifyRedisError(status, NoErr).retryable /\ attempt < MaxRetries

\* redisCallInternal up to its return: TotalCalls++, and FailedCalls++ when
\* DispatchRedisCall fails; attempt is 0, so RetryAttempts is left alone
Dispatched(m, res) ==
    IF res.entered
    THEN [m EXCEPT !.total = @ + 1, !.failed = IF res.err THEN @ + 1 ELSE @]
    ELSE m

\* variant: a retryable failure is dispatched again
FinishedRetrying(m, c) ==
    IF c.status # 0
    THEN IF ShouldRetry(c.status, 0)
         THEN [m EXCEPT !.total = @ + 1, !.retries = @ + 1]
         ELSE [m EXCEPT !.failed = @ + 1]
    ELSE [m EXCEPT !.success = @ + 1]

\* the response closure of redisCallInternal, for the call c dispatched with
\* attempt 0: a failure that should be retried is counted nowhere
Finished(m, c) ==
    IF c.status # 0
    THEN IF ShouldRetry(c.status, 0) THEN m ELSE [m EXCEPT !.failed = @ + 1]
    ELSE [m EXCEPT !.success = @ + 1]

\* the checkReadyFunc Init leaves: always nil after a success, the deferred
\* initialisation after a failure
Installed(rdy) == IF rdy THEN "ok" ELSE "deferred"

\* ------------------------------------------------------ request classifier
\* paths are sequences of characters
CompletionPath == <<"/", "v", "1", "/", "c", "h", "a", "t", "/", "c", "o", "m", "p", "l", "e", "t", "i", "o", "n", "s">>

\* strings.HasSuffix(s, suffix)
HasSuffix(s, suffix) ==
    /\ Len(s) >= Len(suffix)
    /\ SubSeq(s, Len(s) - Len(suffix) + 1, Len(s)) = suffix

Mode(chatMode, adminMode) == [chatMode |-> chatMode, adminMode |-> adminMode]

\* variant: the sub-operation is recognised by the end of the path alone,
\* not by what follows the admin path
GetOperationModeLastSegment(path, adminPath) ==
    LET fullAdminPath == CompletionPath \o adminPath
    IN  IF HasSuffix(path, <<"/", "r", "e", "f", "r", "e", "s", "h">>) THEN Mode("admin", "refresh")
        ELSE IF HasSuffix(path, <<"/", "d", "e", "l", "t", "a">>) THEN Mode("admin", "delta")
        ELSE IF HasSuffix(path, <<"/", "u", "s", "e", "d", "/", "r", "e", "f", "r", "e", "s", "h">>) THEN Mode("admin", "used_refresh")
        ELSE IF HasSuffix(path, <<"/", "u", "s", "e", "d", "/", "d", "e", "l", "t", "a">>) THEN Mode("admin", "used_delta")
        ELSE IF HasSuffix(path, <<"/", "u", "s", "e", "d">>) THEN Mode("admin", "used_query")
        ELSE IF HasSuffix(path, <<"/", "s", "t", "a", "r", "/", "s", "e", "t">>) THEN Mode("admin", "star_set")
        ELSE IF HasSuffix(path, <<"/", "s", "t", "a", "r">>) THEN Mode("admin", "star_query")
        ELSE IF HasSuffix(path, fullAdminPath) THEN Mode("admin", "query")
        ELSE IF HasSuffix(path, CompletionPath) THEN Mode("completion", "none")
        ELSE Mode("none", "none")

\* getOperationMode(path, adminPath, log)
GetOperationMode(path, adminPath) ==
    LET fullAdminPath == CompletionPath \o adminPath
    IN  IF HasSuffix(path, fullAdminPath \o <<"/", "r", "e", "f", "r", "e", "s", "h">>) THEN Mode("admin", "refresh")
        ELSE IF HasSuffix(path, fullAdminPath \o <<"/", "d", "e", "l", "t", "a">>) THEN Mode("admin", "delta")
        ELSE IF HasSuffix(path, fullAdminPath \o <<"/", "u", "s", "e", "d", "/", "r", "e", "f", "r", "e", "s", "h">>) THEN Mode("admin", "used_refresh")
        ELSE IF HasSuffix(path, fullAdminPath \o <<"/", "u", "s", "e", "d", "/", "d", "e", "l", "t", "a">>) THEN Mode("admin", "used_delta")
        ELSE IF HasSuffix(path, fullAdminPath \o <<"/", "u", "s", "e", "d">>) THEN Mode("admin", "used_query")
        ELSE IF HasSuffix(path, fullAdminPath \o <<"/", "s", "t", "a", "r", "/", "s", "e", "t">>) THEN Mode("admin", "star_set")
        ELSE IF HasSuffix(path, fullAdminPath \o <<"/", "s", "t", "a", "r">>) THEN Mode("admin", "star_query")
        ELSE IF HasSuffix(path, fullAdminPath) THEN Mode("admin", "query")
        ELSE IF HasSuffix(path, CompletionPath) THEN Mode("completion", "none")
        ELSE Mode("none", "none")

\* admin paths tried, configured or met in a request path: the default and
\* paths that are or end in a sub-operation suffix
AdminPaths ==
    {<<"/", "q", "u", "o", "t", "a">>,
     <<"/", "u", "s", "e", "d">>,
     <<"/", "s", "t", "a", "r">>,
     <<"/", "r", "e", "f", "r", "e", "s", "h">>,
     <<"/", "q", "u", "o", "t", "a", "/", "u", "s", "e", "d">>,
     <<"/", "q", "u", "o", "t", "a", "/", "s", "t", "a", "r">>,
     <<"/", "a", "/", "d", "e", "l", "t", "a">>,
     <<"/", "s", "e", "t">>}

\* what precedes /v1/chat/completions in a request path
PathPrefixes ==
    {<<>>,
     <<"/", "a", "p", "i">>,
     <<"/", "q", "u", "o", "t", "a", "/", "u", "s", "e", "d">>}

\* what follows the admin path in a request path
PathTails ==
    {<<>>,
     <<"/", "r", "e", "f", "r", "e", "s", "h">>,
     <<"/", "d", "e", "l", "t", "a">>,
     <<"/", "u", "s", "e", "d">>,
     <<"/", "u", "s", "e", "d", "/", "r", "e", "f", "r", "e", "s", "h">>,
     <<"/", "u", "s", "e", "d", "/", "d", "e", "l", "t", "a">>,
     <<"/", "s", "t", "a", "r">>,
     <<"/", "s", "t", "a", "r", "/", "s", "e", "t">>,
     <<"/", "u", "s", "e", "d", "/", "s", "t", "a", "r">>,
     <<"/", "s", "e", "t">>,
     <<"/", "x">>}

\* ---------------------------------------------------------- model catalogue
\* model names are sequences of characters
Wildcard == <<"*">>

\* modelMapping keys tried: the wildcard, a prefix pattern and plain names
ModelKeys ==
    {Wildcard,
     <<"g", "p", "t", "-", "4">>,
     <<"g", "p", "t", "-", "4", "-", "*">>,
     <<"d", "e", "a", "d">>}

\* what a key is mapped to: the empty text or a model name
ModelValues == {"", "qwen-max"}

\* provider.type as configured: absent or empty, a known type, another type
ProviderTypes ==
    {"", "openai", "azure", "qwen", "moonshot", "claude", "gemini", "deepseek"}

\* parseConfig: provider.type, openai when empty
ConfigProviderType(type) == IF type = "" THEN "openai" ELSE type

\* getOwnerByProvider
GetOwnerByProvider(type) ==
    CASE type = "openai" -> "openai"
      [] type = "azure" -> "openai-internal"
      [] type = "qwen" -> "alibaba"
      [] type = "moonshot" -> "moonshot"
      [] type = "claude" -> "anthropic"
      [] type = "gemini" -> "google"
      [] OTHER -> type

ModelCreated == 1686935002

ModelInfo(id, owner) ==
    [id |-> id, object |-> "model", created |-> ModelCreated, owned_by |-> owner]

\* a []ModelInfo: nil, or an array of items
MakeModels == [isNil |-> FALSE, items |-> <<>>]
AppendModel(models, info) == [isNil |-> FALSE, items |-> Append(models.items, info)]

\* variant: keys ending in the wildcard are listed like plain names
VisitModelKeepPatterns(models, modelName, modelValue, type) ==
    IF modelName = Wildcard THEN models
    ELSE IF modelValue = "" THEN models
    ELSE AppendModel(models, ModelInfo(modelName, GetOwnerByProvider(type)))

\* BuildModelsResponse: the body of the loop over modelMapping
VisitModel(models, modelName, modelValue, type) ==
    IF modelName = Wildcard THEN models
    ELSE IF HasSuffix(modelName, Wildcard) THEN models
    ELSE IF modelValue = "" THEN models
    ELSE AppendModel(models, ModelInfo(modelName, GetOwnerByProvider(type)))

\* ---------------------------------------------------------- initial states
\* no function is under evaluation
NoArgs == [fn |-> "none"]
NoResult == [fn |-> "none"]

\* counter texts the code rejects: not an integer, or a negative integer
CorruptCounters == {Stored(StrJunk), Counter(0 - 1)}

\* values of the star key: never written, "true", "false"
InitStars == {Absent, Stored(StrTrue), Stored(StrFalse)}

\* a counter key that exists and holds the empty text
EmptyCounter == Stored(<<>>)

\* (total, used) rows of the initial store: nothing allocated, an allowance
\* unused, partly used and exhausted, and one corrupt or empty counter at a
\* time
InitCounterRows ==
    [total : {Absent}, used : {Absent}]
    \cup [total : {Counter(MaxInitQuota)},
          used : {Absent, Counter(1), Counter(MaxInitQuota)}]
    \cup [total : CorruptCounters \cup {EmptyCounter}, used : {Absent}]
    \cup [total : {Counter(MaxInitQuota)}, used : CorruptCounters \cup {EmptyCounter}]

InitStore(row, star) ==
    [k \in Keys |-> IF k.k = "total" THEN row.total
                    ELSE IF k.k = "used" THEN row.used ELSE star]

\* parseConfig: empty star cache, client created; redisClient.Init either
\* succeeded (ready) or left the deferred initialisation installed
InitPlugin ==
    /\ starCache = [u \in Users |-> "none"]
    /\ reqs = EmptyBag
    /\ args = NoArgs
    /\ result = NoResult
    /\ metrics = NoMetrics

\* with gating enabled the gate flag varies over a valid counter row; with
\* gating disabled the flag is not read and every counter row is tried
Init ==
    /\ InitPlugin
    /\ ready \in BOOLEAN
    /\ checkReadyFunc = Installed(ready)
    /\ checkGithubStar \in BOOLEAN
    /\ \E row \in InitCounterRows, star \in InitStars :
          /\ checkGithubStar =>
                row \in [total : {Counter(MaxInitQuota)}, used : {Absent, Counter(1)}]
          /\ ~checkGithubStar => star = Absent
          /\ store = InitStore(row, star)
    /\ initial = store

\* ------------------------------------------------------------- transitions
Live == BagToSet(reqs)

\* replace the record of one transaction and keep the client's ready flag
Apply(rq, res) ==
    /\ reqs' = (reqs (-) SetToBag({rq})) (+) SetToBag({res.rq})
    /\ ready' = res.ready
    /\ metrics' = Dispatched(metrics, res)

\* the same for the callback of the call c: its response is counted first
ApplyResponse(rq, c, res) ==
    /\ reqs' = (reqs (-) SetToBag({rq})) (+) SetToBag({res.rq})
    /\ ready' = res.ready
    /\ metrics' = Dispatched(Finished(metrics, c), res)

\* redisCallInternal callback: the call is over once its callback runs
Deliver(rq, c) == [rq EXCEPT !.calls = @ \ {c}]

Terminal(rq) == rq.resumed > 0 \/ rq.resp # <<>>

\* onHttpRequestHeaders for a request on the completion path
CompletionHeaders(limit) ==
    /\ BagCardinality(reqs) < limit
    /\ \E h \in TokenHeaders :
          reqs' = reqs (+) SetToBag({CompletionHeadersResult(h)})
    /\ UNCHANGED <<store, starCache, ready, checkGithubStar, initial, args, result, checkReadyFunc, metrics>>

\* onHttpRequestBody -> handleCompletionQuota, with the whole body buffered
HandleCompletionQuota(rq) ==
    /\ rq.mode = "completion" /\ rq.phase = "buffering"
    /\ \E model \in Models, hdr \in DeductHeaders, initOk \in BOOLEAN, dispOk \in BOOLEAN :
          LET hit == checkGithubStar /\ CheckStarCache(starCache, rq.userId)
              r0 == [rq EXCEPT !.model = model, !.phase = "gate",
                               !.starSeen = IF hit THEN "hit" ELSE @,
                               !.ret = HandleCompletionQuotaAction(
                                           [rq EXCEPT !.model = model], checkGithubStar)]
          IN  Apply(rq, HandleCompletionQuotaBody(r0, starCache, checkGithubStar,
                                                  hdr, ready, initOk, dispOk))
    /\ UNCHANGED <<store, starCache, checkGithubStar, initial, args, result, checkReadyFunc>>

\* what the store answers to a command, given the entry at its key
RedisReply(c, e) ==
    CASE c.cmd = "get" -> IF e.present THEN BulkValue(e.s) ELSE NullValue
      [] c.cmd = "set" -> SimpleValue(StrOK)
      [] c.cmd = "incrby" ->
            IF StoreIntOk(e) THEN IntegerValue(StoreInt(e) + Atoi(c.arg.s)) ELSE ErrorValue
      [] c.cmd = "decrby" ->
            IF StoreIntOk(e) THEN IntegerValue(StoreInt(e) - Atoi(c.arg.s)) ELSE ErrorValue

\* the entry a command leaves at its key
RedisEffect(c, e) ==
    CASE c.cmd = "get" -> e
      [] c.cmd = "set" -> Stored(c.arg.s)
      [] c.cmd = "incrby" -> IF StoreIntOk(e) THEN Counter(StoreInt(e) + Atoi(c.arg.s)) ELSE e
      [] c.cmd = "decrby" -> IF StoreIntOk(e) THEN Counter(StoreInt(e) - Atoi(c.arg.s)) ELSE e

\* whether executing a command writes its key
RedisWrites(c, e) ==
    c.cmd = "set" \/ (c.cmd \in {"incrby", "decrby"} /\ StoreIntOk(e))

\* the reply of a call reaches the host, to be handed to its callback
Answer(rq, c, reply, wrote) ==
    [rq EXCEPT !.calls = (@ \ {c}) \cup {[c EXCEPT !.st = "replied", !.reply = reply]},
               !.writes = IF wrote THEN @ + 1 ELSE @]

\* resp.ErrorValue(redisErr): the error value names the class of the error
ClassifiedError(status) ==
    [t |-> "error", s |-> <<ClassifyRedisError(status, NoErr).type>>, n |-> 0]

\* the call ends with a transport status other than 0: its callback will be
\* handed the classified error
AnswerFailed(rq, c, status, wrote) ==
    [rq EXCEPT !.calls = (@ \ {c}) \cup {[c EXCEPT !.st = "replied", !.status = status,
                                                    !.reply = ClassifiedError(status)]},
               !.writes = IF wrote THEN @ + 1 ELSE @]

\* the store executes a dispatched command and replies
RedisExec(rq, c) ==
    /\ c.st = "pending" /\ c.cmd # "eval"
    /\ store' = [store EXCEPT ![c.key] = RedisEffect(c, @)]
    /\ reqs' = (reqs (-) SetToBag({rq}))
               (+) SetToBag({Answer(rq, c, RedisReply(c, store[c.key]),
                                    RedisWrites(c, store[c.key]))})
    /\ UNCHANGED <<starCache, ready, checkGithubStar, initial, args, result, checkReadyFunc, metrics>>

\* the call ends with an error status (timeout, connection lost, cluster
\* down); a write may or may not have been applied before the failure
RedisFailWith(rq, c, statuses) ==
    /\ c.st = "pending" /\ c.cmd # "eval"
    /\ \E applied \in (IF c.cmd = "get" THEN {FALSE} ELSE BOOLEAN), status \in statuses :
          /\ store' = IF applied THEN [store EXCEPT ![c.key] = RedisEffect(c, @)]
                      ELSE store
          /\ reqs' = (reqs (-) SetToBag({rq}))
                     (+) SetToBag({AnswerFailed(rq, c, status,
                                                applied /\ RedisWrites(c, store[c.key]))})
    /\ UNCHANGED <<starCache, ready, checkGithubStar, initial, args, result, checkReadyFunc, metrics>>

RedisFail(rq, c) == RedisFailWith(rq, c, FailStatuses)

\* ------------------------------------------------------- gate continuations
\* a counter reply as the handlers read it: "" counts as 0, otherwise the
\* text must be a non-negative integer
QuotaText(v) == ValueString(v)
\* variant: a negative counter is accepted
QuotaOkAnySign(v) == QuotaText(v) = <<>> \/ AtoiOk(QuotaText(v))
QuotaOk(v) == QuotaText(v) = <<>> \/ (AtoiOk(QuotaText(v)) /\ Atoi(QuotaText(v)) >= 0)
QuotaValue(v) == IF QuotaText(v) = <<>> THEN 0 ELSE Atoi(QuotaText(v))

\* variant: a failed gate read rejects the request
HandleStarResponseFailClosed(rq, v, hdr, rdy, initOk, dispOk) ==
    IF ~IsRedisErrorResponse(v) /\ HasStar(v)
    THEN ProcessQuotaLogic(rq, hdr, rdy, initOk, dispOk)
    ELSE NoOp(SendJSON(rq, 403, "ai-gateway.star_required"), rdy)

\* variant: the rejection does not end the callback
HandleStarResponseNoReturn(rq, v, hdr, rdy, initOk, dispOk) ==
    IF IsRedisErrorResponse(v) \/ HasStar(v)
    THEN ProcessQuotaLogic(rq, hdr, rdy, initOk, dispOk)
    ELSE ProcessQuotaLogic(SendJSON(rq, 403, "ai-gateway.star_required"),
                           hdr, rdy, initOk, dispOk)

\* the callback handleCompletionQuota passes to Get(starKey)
HandleStarResponse(rq, v, hdr, rdy, initOk, dispOk) ==
    IF IsRedisErrorResponse(v) THEN ProcessQuotaLogic(rq, hdr, rdy, initOk, dispOk)
    ELSE IF HasStar(v) THEN ProcessQuotaLogic(rq, hdr, rdy, initOk, dispOk)
    ELSE NoOp(SendJSON(rq, 403, "ai-gateway.star_required"), rdy)

\* variant: whatever flag was read is cached
StarResponseCacheAnyFlag(cache, u, v) ==
    IF IsRedisErrorResponse(v) THEN cache
    ELSE [cache EXCEPT ![u] = IF HasStar(v) THEN "true" ELSE "false"]

\* the cache after that callback: only a "true" flag is cached
StarResponseCache(cache, u, v) ==
    IF ~IsRedisErrorResponse(v) /\ HasStar(v) THEN SetStarCache(cache, u, TRUE)
    ELSE cache

\* handleTotalQuotaResponseWithRetry
HandleTotalQuotaResponse(rq, v, rdy, initOk, dispOk) ==
    IF IsRedisErrorResponse(v)
    THEN NoOp(SendJSON(rq, 403, "quota-check.total_quota_error"), rdy)
    ELSE IF ~QuotaOk(v)
    THEN NoOp(SendJSON(rq, 500, "quota-check.invalid_total_quota"), rdy)
    ELSE ClientOp([rq EXCEPT !.total = QuotaValue(v)], "used", "get",
                  Key("used", rq.userId), NoArg, rdy, initOk, dispOk)

\* variant: the deduction writes back the value read plus the weight
HandleUsedQuotaResponseWriteBack(rq, v, rdy, initOk, dispOk) ==
    IF IsRedisErrorResponse(v)
    THEN NoOp(SendJSON(rq, 403, "quota-check.used_quota_error"), rdy)
    ELSE IF ~QuotaOk(v)
    THEN NoOp(SendJSON(rq, 500, "quota-check.invalid_used_quota"), rdy)
    ELSE LET r1 == [rq EXCEPT !.used = QuotaValue(v), !.checked = TRUE]
         IN  IF SufficientQuota(rq.total, QuotaValue(v), QuotaWeight(rq.model))
             THEN ClientOp(r1, "incr", "set", Key("used", rq.userId),
                           IntArg(QuotaValue(v) + QuotaWeight(rq.model)), rdy, initOk, dispOk)
             ELSE NoOp(SendJSON(r1, 403, "quota-check.insufficient_quota"), rdy)

\* variant: the deduction is taken from the total counter
HandleUsedQuotaResponseDeductsTotal(rq, v, rdy, initOk, dispOk) ==
    IF IsRedisErrorResponse(v)
    THEN NoOp(SendJSON(rq, 403, "quota-check.used_quota_error"), rdy)
    ELSE IF ~QuotaOk(v)
    THEN NoOp(SendJSON(rq, 500, "quota-check.invalid_used_quota"), rdy)
    ELSE LET r1 == [rq EXCEPT !.used = QuotaValue(v), !.checked = TRUE]
         IN  IF SufficientQuota(rq.total, QuotaValue(v), QuotaWeight(rq.model))
             THEN ClientOp(r1, "incr", "decrby", Key("total", rq.userId),
                           IntArg(QuotaWeight(rq.model)), rdy, initOk, dispOk)
             ELSE NoOp(SendJSON(r1, 403, "quota-check.insufficient_quota"), rdy)

\* handleUsedQuotaResponseWithRetry
HandleUsedQuotaResponse(rq, v, rdy, initOk, dispOk) ==
    IF IsRedisErrorResponse(v)
    THEN NoOp(SendJSON(rq, 403, "quota-check.used_quota_error"), rdy)
    ELSE IF ~QuotaOk(v)
    THEN NoOp(SendJSON(rq, 500, "quota-check.invalid_used_quota"), rdy)
    ELSE LET r1 == [rq EXCEPT !.used = QuotaValue(v), !.checked = TRUE]
         IN  IF SufficientQuota(rq.total, QuotaValue(v), QuotaWeight(rq.model))
             THEN ClientOp(r1, "incr", "incrby", Key("used", rq.userId),
                           IntArg(QuotaWeight(rq.model)), rdy, initOk, dispOk)
             ELSE NoOp(SendJSON(r1, 403, "quota-check.insufficient_quota"), rdy)

\* handleQuotaDeductionResponse
HandleQuotaDeductionResponse(rq, v, rdy) ==
    IF IsRedisErrorResponse(v)
    THEN NoOp(SendJSON(rq, 500, "quota-check.deduction_failed"), rdy)
    ELSE IF ~DeductionConsistent(v.n, QuotaWeight(rq.model))
    THEN NoOp(SendJSON(rq, 500, "quota-check.deduction_inconsistent"), rdy)
    ELSE NoOp(Resume([rq EXCEPT !.newUsed = v.n]), rdy)

Replied(c, cont) == c.st = "replied" /\ c.cont = cont

\* variant: the response of a call is handed to its callback whether or not
\* the request still exists
InContextAlways(rq) == TRUE

\* the request of the call is still among the host's contexts
InContext(rq) == ~rq.gone

\* the host tears down a request that waits for a store call (client reset,
\* timeout); its calls stay in flight
Teardown(rq) ==
    /\ InContext(rq) /\ rq.calls # {}
    /\ reqs' = (reqs (-) SetToBag({rq}))
               (+) SetToBag({[rq EXCEPT !.gone = TRUE,
                                        !.atGone = [issued |-> rq.issued,
                                                    syncErrs |-> rq.syncErrs,
                                                    resumed |-> rq.resumed,
                                                    resp |-> Len(rq.resp)]]})
    /\ UNCHANGED <<store, starCache, ready, checkGithubStar, initial, args, result, checkReadyFunc, metrics>>

\* the response of a call whose request is gone: the call is forgotten and
\* its callback is not run
DropResponse(rq, c) ==
    /\ c.st = "replied" /\ ~InContext(rq)
    /\ reqs' = (reqs (-) SetToBag({rq}))
               (+) SetToBag({[Deliver(rq, c) EXCEPT !.dropped = @ \cup {c.cont}]})
    /\ UNCHANGED <<store, starCache, ready, checkGithubStar, initial, args, result, checkReadyFunc, metrics>>

\* what a callback was handed: an error, the text "true", or anything else
ReplyKind(v) ==
    IF v.t = "error" THEN "error"
    ELSE IF v.t \in {"bulk", "simple"} /\ v.s = StrTrue THEN "true" ELSE "other"

\* the record of a request as its callback starts: call over, reply noted
Callback(rq, c) ==
    [Deliver(rq, c) EXCEPT !.errs = IF c.reply.t = "error" THEN @ \cup {c.cont} ELSE @,
                           !.invoked = @ + 1,
                           !.seen = IF c.cont \in DOMAIN rq.seen
                                    THEN [@ EXCEPT ![c.cont] = c.reply] ELSE @]

OnStarResponse(rq, c) ==
    /\ Replied(c, "star") /\ InContext(rq)
    /\ starCache' = StarResponseCache(starCache, rq.userId, c.reply)
    /\ \E hdr \in DeductHeaders, initOk \in BOOLEAN, dispOk \in BOOLEAN :
          ApplyResponse(rq, c, HandleStarResponse(
                        [Callback(rq, c) EXCEPT !.starSeen = ReplyKind(c.reply),
                                                !.cached = (starCache' # starCache)],
                        c.reply, hdr, ready, initOk, dispOk))
    /\ UNCHANGED <<store, checkGithubStar, initial, args, result, checkReadyFunc>>

OnTotalResponse(rq, c) ==
    /\ Replied(c, "total") /\ InContext(rq)
    /\ \E initOk \in BOOLEAN, dispOk \in BOOLEAN :
          ApplyResponse(rq, c, HandleTotalQuotaResponse(Callback(rq, c), c.reply, ready, initOk, dispOk))
    /\ UNCHANGED <<store, starCache, checkGithubStar, initial, args, result, checkReadyFunc>>

OnUsedResponse(rq, c) ==
    /\ Replied(c, "used") /\ InContext(rq)
    /\ \E initOk \in BOOLEAN, dispOk \in BOOLEAN :
          ApplyResponse(rq, c, HandleUsedQuotaResponse(Callback(rq, c), c.reply, ready, initOk, dispOk))
    /\ UNCHANGED <<store, starCache, checkGithubStar, initial, args, result, checkReadyFunc>>

OnIncrResponse(rq, c) ==
    /\ Replied(c, "incr") /\ InContext(rq)
    /\ ApplyResponse(rq, c, HandleQuotaDeductionResponse(Callback(rq, c), c.reply, ready))
    /\ UNCHANGED <<store, starCache, checkGithubStar, initial, args, result, checkReadyFunc>>

\* ------------------------------------------------------------ admin surface
AdminQueries == {"query", "used_query", "star_query"}
AdminWrites == {"refresh", "delta", "used_refresh", "used_delta", "star_set"}
AdminModes == AdminQueries \cup AdminWrites

\* the key an admin mode works on
AdminKeyKind(mode) ==
    IF mode \in {"query", "refresh", "delta"} THEN "total"
    ELSE IF mode \in {"used_query", "used_refresh", "used_delta"} THEN "used"
    ELSE "star"

\* the success code of each mutation
AdminSuccessCode(mode) ==
    CASE mode = "refresh" -> "ai-gateway.refreshquota"
      [] mode = "delta" -> "ai-gateway.deltaquota"
      [] mode = "used_refresh" -> "ai-gateway.refreshusedquota"
      [] mode = "used_delta" -> "ai-gateway.deltausedquota"
      [] mode = "star_set" -> "ai-gateway.setstar"

\* user_id values and quota / value / star_value texts of admin requests
AdminUserIds == Users \cup {""}
AdminTexts == {<<>>, Sprint(2), Sprint(0 - 2), StrJunk, StrTrue, StrFalse}

\* a handler that got an error from the client answers 503 and continues
OrUnavailable(res) ==
    IF res.err
    THEN [res EXCEPT !.rq = [SendJSON(@, 503, "ai-gateway.error") EXCEPT !.ret = "Continue"]]
    ELSE [res EXCEPT !.rq.ret = "Pause"]

InvalidParams(rq, rdy) ==
    NoOp([SendJSON(rq, 400, "ai-gateway.invalid_params") EXCEPT !.ret = "Continue"], rdy)

\* queryQuota, called from the header phase
QueryQuota(rq, cache, rdy, initOk, dispOk) ==
    IF rq.userId = "" THEN InvalidParams(rq, rdy)
    ELSE IF rq.mode = "star_query" /\ CheckStarCache(cache, rq.userId)
    THEN NoOp([SendData(rq, 200, "ai-gateway.querystar", [quota |-> 0, star |-> StrTrue])
                  EXCEPT !.ret = "Continue"], rdy)
    ELSE OrUnavailable(ClientOp(rq, "query", "get", Key(AdminKeyKind(rq.mode), rq.userId),
                                NoArg, rdy, initOk, dispOk))

\* refreshQuota and refreshUsedQuota: SET key to the integer in "quota"
RefreshQuota(rq, rdy, initOk, dispOk) ==
    IF rq.userId = "" \/ ~AtoiOk(rq.param) THEN InvalidParams(rq, rdy)
    ELSE OrUnavailable(ClientOp(rq, "admin", "set", Key(AdminKeyKind(rq.mode), rq.userId),
                                TextArg(Sprint(Atoi(rq.param))), rdy, initOk, dispOk))

\* variant: a negative value is passed to DECRBY as it is
DeltaQuotaNoNegate(rq, rdy, initOk, dispOk) ==
    IF rq.userId = "" \/ ~AtoiOk(rq.param) THEN InvalidParams(rq, rdy)
    ELSE OrUnavailable(ClientOp(rq, "admin",
                                IF Atoi(rq.param) >= 0 THEN "incrby" ELSE "decrby",
                                Key(AdminKeyKind(rq.mode), rq.userId),
                                IntArg(Atoi(rq.param)), rdy, initOk, dispOk))

\* deltaQuota and deltaUsedQuota: INCRBY value, or DECRBY 0-value when negative
DeltaQuota(rq, rdy, initOk, dispOk) ==
    IF rq.userId = "" \/ ~AtoiOk(rq.param) THEN InvalidParams(rq, rdy)
    ELSE IF Atoi(rq.param) >= 0
    THEN OrUnavailable(ClientOp(rq, "admin", "incrby", Key(AdminKeyKind(rq.mode), rq.userId),
                                IntArg(Atoi(rq.param)), rdy, initOk, dispOk))
    ELSE OrUnavailable(ClientOp(rq, "admin", "decrby", Key(AdminKeyKind(rq.mode), rq.userId),
                                IntArg(WrapInt(0 - Atoi(rq.param))), rdy, initOk, dispOk))

\* setStarStatus: validate, drop the cache entry, SET the flag
StarParamsOk(rq) == rq.userId # "" /\ rq.param \in {StrTrue, StrFalse}

SetStarStatus(rq, rdy, initOk, dispOk) ==
    IF ~StarParamsOk(rq) THEN InvalidParams(rq, rdy)
    ELSE OrUnavailable(ClientOp(rq, "admin", "set", Key("star", rq.userId),
                                TextArg(rq.param), rdy, initOk, dispOk))

\* variant: the cache entry is dropped before the parameters are validated
SetStarStatusCacheUnvalidated(cache, rq) ==
    IF rq.userId \in Users THEN DeleteStarCache(cache, rq.userId) ELSE cache

\* variant: the cache entry is kept
SetStarStatusCacheKept(cache, rq) == cache

\* variant: the value written is put in the cache
SetStarStatusCacheWriteThrough(cache, rq) ==
    IF StarParamsOk(rq) THEN [cache EXCEPT ![rq.userId] = "true"] ELSE cache

SetStarStatusCache(cache, rq) ==
    IF StarParamsOk(rq) THEN DeleteStarCache(cache, rq.userId) ELSE cache

\* the callback of every mutation
HandleAdminResponse(rq, v, rdy) ==
    IF IsRedisErrorResponse(v) THEN NoOp(SendJSON(rq, 503, "ai-gateway.error"), rdy)
    ELSE NoOp(SendJSON(rq, 200, AdminSuccessCode(rq.mode)), rdy)

\* the star value queryQuota reports: "true" or "false" as stored, else "false"
QueryStarValue(v) ==
    IF v.t # "null" /\ ValueString(v) \in {StrTrue, StrFalse} THEN ValueString(v)
    ELSE StrFalse

\* the callback of queryQuota
HandleQueryResponse(rq, v, rdy) ==
    IF IsRedisErrorResponse(v) THEN NoOp(SendJSON(rq, 503, "ai-gateway.redis_error"), rdy)
    ELSE IF rq.mode = "star_query"
    THEN NoOp(SendData(rq, 200, "ai-gateway.querystar",
                       [quota |-> 0, star |-> QueryStarValue(v)]), rdy)
    ELSE IF v.t = "null" \/ ValueString(v) = <<>>
    THEN NoOp(SendData(rq, 200, "ai-gateway.queryquota", [quota |-> 0, star |-> <<>>]), rdy)
    ELSE IF ~AtoiOk(ValueString(v))
    THEN NoOp(SendJSON(rq, 500, "ai-gateway.invalid_quota_format"), rdy)
    ELSE IF Atoi(ValueString(v)) < 0
    THEN NoOp(SendJSON(rq, 500, "ai-gateway.invalid_quota_value"), rdy)
    ELSE NoOp(SendData(rq, 200, "ai-gateway.queryquota",
                       [quota |-> Atoi(ValueString(v)), star |-> <<>>]), rdy)

QueryResponseCache(cache, rq, v) ==
    IF ~IsRedisErrorResponse(v) /\ rq.mode = "star_query" /\ QueryStarValue(v) = StrTrue
    THEN SetStarCache(cache, rq.userId, TRUE)
    ELSE cache

\* the configured admin_key (never empty) and the admin header of a request:
\* absent, equal to the key, or different from it
AdminKey == "secret"
AdminKeyHeaders ==
    {[present |-> FALSE, value |-> ""]} \cup [present : {TRUE}, value : {AdminKey, "wrong"}]

\* variant: any admin header is accepted
AdminAuthorizedIfPresent(h) == h.present

\* onHttpRequestHeaders: err != nil || adminKey != config.AdminKey is refused
AdminAuthorized(h) == h.present /\ h.value = AdminKey

\* what the store holds, when an admin request starts, at the key it names
Snapshot(mode, uid) ==
    IF uid \in Users THEN store[Key(AdminKeyKind(mode), uid)] ELSE Absent

\* onHttpRequestHeaders for a request on an admin path
AdminHeaders(limit) ==
    /\ BagCardinality(reqs) < limit
    /\ \E mode \in AdminModes, h \in AdminKeyHeaders, uid \in AdminUserIds,
          initOk \in BOOLEAN, dispOk \in BOOLEAN :
          LET rq == [NewReq(mode) EXCEPT !.adminHdr = h]
              res == IF ~AdminAuthorized(h)
                     THEN NoOp([SendJSON(rq, 403, "ai-gateway.unauthorized")
                                   EXCEPT !.ret = "Continue"], ready)
                     ELSE IF mode \in AdminQueries
                     THEN QueryQuota([rq EXCEPT !.userId = uid, !.phase = "admin",
                                                !.snap = Snapshot(mode, uid)],
                                     starCache, ready, initOk, dispOk)
                     ELSE NoOp([rq EXCEPT !.phase = "buffering",
                                          !.ret = "HeaderStopIteration"], ready)
          IN  /\ reqs' = reqs (+) SetToBag({res.rq})
              /\ ready' = res.ready
              /\ metrics' = Dispatched(metrics, res)
    /\ UNCHANGED <<store, starCache, checkGithubStar, initial, args, result, checkReadyFunc>>

\* onHttpRequestBody for a mutation, with the whole form buffered
AdminBodyWith(rq, texts) ==
    /\ rq.mode \in AdminWrites /\ rq.phase = "buffering"
    /\ \E uid \in AdminUserIds, text \in texts, initOk \in BOOLEAN, dispOk \in BOOLEAN :
          LET r0 == [rq EXCEPT !.userId = uid, !.param = text, !.phase = "admin",
                               !.snap = Snapshot(rq.mode, uid),
                               !.hadEntry = (rq.mode = "star_set" /\ uid \in Users
                                             /\ CheckStarCache(starCache, uid))]
          IN  /\ Apply(rq, CASE rq.mode \in {"refresh", "used_refresh"} ->
                                    RefreshQuota(r0, ready, initOk, dispOk)
                             [] rq.mode \in {"delta", "used_delta"} ->
                                    DeltaQuota(r0, ready, initOk, dispOk)
                             [] rq.mode = "star_set" ->
                                    SetStarStatus(r0, ready, initOk, dispOk))
              /\ starCache' = IF rq.mode = "star_set" THEN SetStarStatusCache(starCache, r0)
                              ELSE starCache
    /\ UNCHANGED <<store, checkGithubStar, initial, args, result, checkReadyFunc>>

AdminBody(rq) == AdminBodyWith(rq, AdminTexts)

OnAdminResponse(rq, c) ==
    /\ Replied(c, "admin") /\ InContext(rq)
    /\ ApplyResponse(rq, c, HandleAdminResponse(Callback(rq, c), c.reply, ready))
    /\ UNCHANGED <<store, starCache, checkGithubStar, initial, args, result, checkReadyFunc>>

OnQueryResponse(rq, c) ==
    /\ Replied(c, "query") /\ InContext(rq)
    /\ starCache' = QueryResponseCache(starCache, rq, c.reply)
    /\ ApplyResponse(rq, c, HandleQueryResponse(
                     [Callback(rq, c) EXCEPT !.cached = (starCache' # starCache)],
                     c.reply, ready))
    /\ UNCHANGED <<store, checkGithubStar, initial, args, result, checkReadyFunc>>

\* ------------------------------------------------------------ specifications
\* the completion gate alone
Next ==
    \/ CompletionHeaders(MaxReqs)
    \/ \E rq \in Live : HandleCompletionQuota(rq)
    \/ \E rq \in Live : \E c \in rq.calls : RedisExec(rq, c)
    \/ \E rq \in Live : \E c \in rq.calls : RedisFail(rq, c)
    \/ \E rq \in Live : \E c \in rq.calls : OnStarResponse(rq, c)
    \/ \E rq \in Live : \E c \in rq.calls : OnTotalResponse(rq, c)
    \/ \E rq \in Live : \E c \in rq.calls : OnUsedResponse(rq, c)
    \/ \E rq \in Live : \E c \in rq.calls : OnIncrResponse(rq, c)

Spec == Init /\ [][Next]_vars

\* the deduction chain alone: gating disabled, client ready, a valid
\* allowance of MaxInitQuota of which any part is used
InitDeduct ==
    /\ InitPlugin
    /\ ready = TRUE
    /\ checkReadyFunc = Installed(ready)
    /\ checkGithubStar = FALSE
    /\ \E used \in {Absent} \cup {Counter(n) : n \in 0..MaxInitQuota} :
          store = InitStore([total |-> Counter(MaxInitQuota), used |-> used], Absent)
    /\ initial = store

NextDeduct ==
    \/ CompletionHeaders(MaxDeduct)
    \/ \E rq \in Live : HandleCompletionQuota(rq)
    \/ \E rq \in Live : \E c \in rq.calls : RedisExec(rq, c)
    \/ \E rq \in Live : \E c \in rq.calls : RedisFail(rq, c)
    \/ \E rq \in Live : \E c \in rq.calls : OnTotalResponse(rq, c)
    \/ \E rq \in Live : \E c \in rq.calls : OnUsedResponse(rq, c)
    \/ \E rq \in Live : \E c \in rq.calls : OnIncrResponse(rq, c)

SpecDeduct == InitDeduct /\ [][NextDeduct]_vars

\* the deduction chain with requests torn down while they wait
NextTeardown ==
    \/ CompletionHeaders(MaxTorn)
    \/ \E rq \in Live : HandleCompletionQuota(rq)
    \/ \E rq \in Live : \E c \in rq.calls : RedisExec(rq, c)
    \/ \E rq \in Live : \E c \in rq.calls : RedisFail(rq, c)
    \/ \E rq \in Live : \E c \in rq.calls : OnTotalResponse(rq, c)
    \/ \E rq \in Live : \E c \in rq.calls : OnUsedResponse(rq, c)
    \/ \E rq \in Live : \E c \in rq.calls : OnIncrResponse(rq, c)
    \/ \E rq \in Live : Teardown(rq)
    \/ \E rq \in Live : \E c \in rq.calls : DropResponse(rq, c)

SpecTeardown == InitDeduct /\ [][NextTeardown]_vars

\* completion and admin requests together, over a valid store
InitAdmin ==
    /\ InitPlugin
    /\ ready \in BOOLEAN
    /\ checkReadyFunc = Installed(ready)
    /\ checkGithubStar \in BOOLEAN
    /\ \E total \in {Counter(2 * MaxInitQuota)},
          used \in {Absent, Counter(MaxInitQuota)},
          star \in {Absent, Stored(StrTrue)} :
          store = InitStore([total |-> total, used |-> used], star)
    /\ initial = store

NextAdmin ==
    \/ CompletionHeaders(MaxMixed)
    \/ AdminHeaders(MaxMixed)
    \/ \E rq \in Live : HandleCompletionQuota(rq)
    \/ \E rq \in Live : AdminBody(rq)
    \/ \E rq \in Live : \E c \in rq.calls : RedisExec(rq, c)
    \/ \E rq \in Live : \E c \in rq.calls : RedisFail(rq, c)
    \/ \E rq \in Live : \E c \in rq.calls : OnStarResponse(rq, c)
    \/ \E rq \in Live : \E c \in rq.calls : OnTotalResponse(rq, c)
    \/ \E rq \in Live : \E c \in rq.calls : OnUsedResponse(rq, c)
    \/ \E rq \in Live : \E c \in rq.calls : OnIncrResponse(rq, c)
    \/ \E rq \in Live : \E c \in rq.calls : OnAdminResponse(rq, c)
    \/ \E rq \in Live : \E c \in rq.calls : OnQueryResponse(rq, c)

SpecAdmin == InitAdmin /\ [][NextAdmin]_vars

\* admin requests alone, with values at the ends of the range of int
DeltaTexts == {Sprint(2), Sprint(0 - 2), Sprint(MinInt), Sprint(MinInt + 1),
               Sprint(MaxInt), Sprint(MinInt - 1), StrJunk}

NextDelta ==
    \/ AdminHeaders(MaxDelta)
    \/ \E rq \in Live : AdminBodyWith(rq, DeltaTexts)
    \/ \E rq \in Live : \E c \in rq.calls : RedisExec(rq, c)
    \/ \E rq \in Live : \E c \in rq.calls : RedisFail(rq, c)
    \/ \E rq \in Live : \E c \in rq.calls : OnAdminResponse(rq, c)
    \/ \E rq \in Live : \E c \in rq.calls : OnQueryResponse(rq, c)

SpecDelta == InitAdmin /\ [][NextDelta]_vars

\* gating enabled and the client ready, the flag of the user absent, "false"
\* or "true", and in the last case possibly cached by an earlier positive read
InitStar ==
    /\ reqs = EmptyBag
    /\ args = NoArgs
    /\ result = NoResult
    /\ metrics = NoMetrics
    /\ ready = TRUE
    /\ checkReadyFunc = Installed(ready)
    /\ checkGithubStar = TRUE
    /\ \E star \in {Absent, Stored(StrFalse), Stored(StrTrue)} :
          /\ store = InitStore([total |-> Counter(2 * MaxInitQuota), used |-> Absent], star)
          /\ starCache \in {[u \in Users |-> "none"]}
                          \cup (IF star = Stored(StrTrue) THEN {[u \in Users |-> "true"]}
                                ELSE {})
    /\ initial = store

NextStar ==
    \/ CompletionHeaders(MaxStar)
    \/ AdminHeaders(MaxStar)
    \/ \E rq \in Live : HandleCompletionQuota(rq)
    \/ \E rq \in Live : AdminBody(rq)
    \/ \E rq \in Live : \E c \in rq.calls : RedisExec(rq, c)
    \/ \E rq \in Live : \E c \in rq.calls : RedisFail(rq, c)
    \/ \E rq \in Live : \E c \in rq.calls : OnStarResponse(rq, c)
    \/ \E rq \in Live : \E c \in rq.calls : OnTotalResponse(rq, c)
    \/ \E rq \in Live : \E c \in rq.calls : OnUsedResponse(rq, c)
    \/ \E rq \in Live : \E c \in rq.calls : OnIncrResponse(rq, c)
    \/ \E rq \in Live : \E c \in rq.calls : OnAdminResponse(rq, c)
    \/ \E rq \in Live : \E c \in rq.calls : OnQueryResponse(rq, c)

SpecStar == InitStar /\ [][NextStar]_vars

\* ------------------------------------------------------------ client alone
\* Init(username, password, timeout): RedisInit succeeds (ok) or fails
\* variant: a failed Init makes the client not ready again
ClientInitResultResets(rdy, ok) ==
    [check |-> IF ok THEN "ok" ELSE "deferred", ready |-> ok]
ClientInitResult(rdy, ok) ==
    [check |-> IF ok THEN "ok" ELSE "deferred", ready |-> (ok \/ rdy)]

ClientInit ==
    /\ \E ok \in BOOLEAN :
          /\ checkReadyFunc' = ClientInitResult(ready, ok).check
          /\ ready' = ClientInitResult(ready, ok).ready
    /\ UNCHANGED <<store, starCache, checkGithubStar, reqs, initial, args, result, metrics>>

\* a command of the client, whatever checkReadyFunc is installed: the one of
\* NewRedisClusterClient always fails, the one of a successful Init never does
ClientCall(rq, cont, cmd, key, arg, check, rdy, initOk, dispOk) ==
    IF check = "unset"
    THEN [err |-> TRUE, entered |-> FALSE, ready |-> rdy,
          rq |-> [rq EXCEPT !.syncErrs = @ + 1]]
    ELSE IF check = "ok"
    THEN [ClientOp(rq, cont, cmd, key, arg, TRUE, initOk, dispOk) EXCEPT !.ready = rdy]
    ELSE ClientOp(rq, cont, cmd, key, arg, rdy, initOk, dispOk)

\* weights passed to AtomicQuotaCheck: those of the configured models
AtomicWeights == {QuotaWeight(m) : m \in Models}

\* tonumber(redis.call('get', key)) or 0
LuaNumber(e) == IF e.present /\ AtoiOk(e.s) THEN Atoi(e.s) ELSE 0

\* variant: the script increments without comparing
QuotaScriptNoCompare(te, ue, argText) ==
    LET w == Atoi(argText)
        total == LuaNumber(te)
        used == LuaNumber(ue)
    IN  IF ~StoreIntOk(ue)
        THEN [reply |-> ErrorValue, used |-> ue, wrote |-> FALSE]
        ELSE [reply |-> ArrayValue(<<total, used, total - used, 1>>),
              used |-> Counter(StoreInt(ue) + w), wrote |-> TRUE]

\* the script of AtomicQuotaCheck over the entries at KEYS[1] and KEYS[2] and
\* the text of ARGV[1]: the reply and the entry left at KEYS[2]; incrby
\* raises an error on a value that is not an integer
QuotaScript(te, ue, argText) ==
    LET w == Atoi(argText)
        total == LuaNumber(te)
        used == LuaNumber(ue)
        remaining == total - used
    IN  IF remaining < w
        THEN [reply |-> ArrayValue(<<total, used, remaining, 0>>),
              used |-> ue, wrote |-> FALSE]
        ELSE IF ~StoreIntOk(ue)
        THEN [reply |-> ErrorValue, used |-> ue, wrote |-> FALSE]
        ELSE [reply |-> ArrayValue(<<total, used, remaining, 1>>),
              used |-> Counter(StoreInt(ue) + w), wrote |-> TRUE]

\* the keys of an AtomicQuotaCheck call
TotalKeyOf(c) == Key("total", c.key.u)
UsedKeyOf(c) == c.key

\* a caller invokes Get(totalKey, callback) or
\* AtomicQuotaCheck(totalKey, usedKey, quotaWeight, callback)
CallerOp(limit) ==
    /\ BagCardinality(reqs) < limit
    /\ \E u \in Users, initOk \in BOOLEAN, dispOk \in BOOLEAN :
          LET rq == [NewReq("caller") EXCEPT !.userId = u, !.phase = "called"]
              res(cmd, key, arg) ==
                  ClientCall(rq, "caller", cmd, key, arg, checkReadyFunc, ready,
                             initOk, dispOk)
          IN  \E r \in {res("get", Key("total", u), NoArg)}
                       \cup {res("eval", Key("used", u), IntArg(w)) : w \in AtomicWeights} :
                  /\ reqs' = reqs (+) SetToBag({r.rq})
                  /\ ready' = r.ready
                  /\ metrics' = Dispatched(metrics, r)
    /\ UNCHANGED <<store, starCache, checkGithubStar, initial, args, result, checkReadyFunc>>

\* the store runs the script of a dispatched EVAL in one step and replies
EvalExec(rq, c) ==
    /\ c.st = "pending" /\ c.cmd = "eval"
    /\ LET run == QuotaScript(store[TotalKeyOf(c)], store[UsedKeyOf(c)], c.arg.s)
       IN  /\ store' = [store EXCEPT ![UsedKeyOf(c)] = run.used]
           /\ reqs' = (reqs (-) SetToBag({rq}))
                      (+) SetToBag({Answer(rq, c, run.reply, run.wrote)})
    /\ UNCHANGED <<starCache, ready, checkGithubStar, initial, args, result, checkReadyFunc, metrics>>

\* an EVAL ends with a transport status other than 0; the script may or may
\* not have run before the failure
EvalFail(rq, c) ==
    /\ c.st = "pending" /\ c.cmd = "eval"
    /\ \E applied \in BOOLEAN, status \in 1..MaxStatus :
          LET run == QuotaScript(store[TotalKeyOf(c)], store[UsedKeyOf(c)], c.arg.s)
          IN  /\ store' = IF applied THEN [store EXCEPT ![UsedKeyOf(c)] = run.used]
                          ELSE store
              /\ reqs' = (reqs (-) SetToBag({rq}))
                         (+) SetToBag({AnswerFailed(rq, c, status, applied /\ run.wrote)})
    /\ UNCHANGED <<starCache, ready, checkGithubStar, initial, args, result, checkReadyFunc, metrics>>

\* a Get ends with any transport status other than 0
GetFail(rq, c) == RedisFailWith(rq, c, 1..MaxStatus)

\* the callback of the caller: it keeps the value it is handed
OnCallerResponse(rq, c) ==
    /\ Replied(c, "caller") /\ InContext(rq)
    /\ ApplyResponse(rq, c, NoOp(Callback(rq, c), ready))
    /\ UNCHANGED <<store, starCache, checkGithubStar, initial, args, result, checkReadyFunc>>

\* counters of the initial store: integers with used <= total, among them a
\* negative used, and a used key that holds no integer
ClientCounterRows ==
    [total : {Absent}, used : {Absent}]
    \cup [total : {Counter(MaxInitQuota)},
          used : {Absent, Counter(1), Counter(MaxInitQuota), Counter(0 - 1), Stored(StrJunk)}]

\* NewRedisClusterClient: not ready, and no Init called yet
InitClient ==
    /\ starCache = [u \in Users |-> "none"]
    /\ reqs = EmptyBag
    /\ args = NoArgs
    /\ result = NoResult
    /\ metrics = NoMetrics
    /\ ready = FALSE
    /\ checkReadyFunc = "unset"
    /\ checkGithubStar = FALSE
    /\ \E row \in ClientCounterRows : store = InitStore(row, Absent)
    /\ initial = store

NextClient ==
    \/ ClientInit
    \/ CallerOp(MaxCallers)
    \/ \E rq \in Live : \E c \in rq.calls : RedisExec(rq, c)
    \/ \E rq \in Live : \E c \in rq.calls : GetFail(rq, c)
    \/ \E rq \in Live : \E c \in rq.calls : EvalExec(rq, c)
    \/ \E rq \in Live : \E c \in rq.calls : EvalFail(rq, c)
    \/ \E rq \in Live : \E c \in rq.calls : OnCallerResponse(rq, c)

SpecClient == InitClient /\ [][NextClient]_vars

\* no request is served while a function of the client is evaluated alone
InitPure ==
    /\ starCache = [u \in Users |-> "none"]
    /\ reqs = EmptyBag
    /\ ready = TRUE
    /\ checkReadyFunc = Installed(ready)
    /\ checkGithubStar = FALSE
    /\ store = InitStore([total |-> Absent, used |-> Absent], Absent)
    /\ initial = store
    /\ result = NoResult
    /\ metrics = NoMetrics

\* every response the host can hand to the callback of redisCallInternal
InitClassify ==
    /\ InitPure
    /\ \E status \in 0..MaxStatus, err \in {NoErr} \cup {Err(m) : m \in ErrTexts},
          parse \in {"ok", "eof", "bad"} :
          args = [fn |-> "response", status |-> status, err |-> err, parse |-> parse]

Classify ==
    /\ args.fn = "response" /\ result = NoResult
    /\ result' = [fn |-> "response"] @@ ResponseError(args.status, args.err, args.parse)
    /\ UNCHANGED <<store, starCache, ready, checkGithubStar, reqs, initial, args, checkReadyFunc, metrics>>

NextClassify == Classify

SpecClassify == InitClassify /\ [][NextClassify]_vars

\* every request path built from a prefix, /v1/chat/completions, an admin
\* path or none, and a tail, against every configured admin path
InitMode ==
    /\ InitPure
    /\ \E adminPath \in AdminPaths, prefix \in PathPrefixes,
          pathAdmin \in AdminPaths \cup {<<>>}, tail \in PathTails :
          args = [fn |-> "mode", adminPath |-> adminPath, prefix |-> prefix,
                  pathAdmin |-> pathAdmin, tail |-> tail,
                  path |-> prefix \o CompletionPath \o pathAdmin \o tail]

OperationMode ==
    /\ args.fn = "mode" /\ result = NoResult
    /\ result' = [fn |-> "mode"] @@ GetOperationMode(args.path, args.adminPath)
    /\ UNCHANGED <<store, starCache, ready, checkGithubStar, reqs, initial, args, checkReadyFunc, metrics>>

NextMode == OperationMode

SpecMode == InitMode /\ [][NextMode]_vars

\* every provider configuration over the keys and values tried
InitModels ==
    /\ InitPure
    /\ \E type \in ProviderTypes, keys \in SUBSET ModelKeys :
          \E mapping \in [keys -> ModelValues] :
              args = [fn |-> "models", type |-> ConfigProviderType(type),
                      modelMapping |-> mapping]

\* BuildModelsResponse up to its loop: the models slice is made, and the
\* response is ready at once when modelMapping is empty
BuildModelsResponse ==
    /\ args.fn = "models" /\ result = NoResult
    /\ result' = [fn |-> "models", object |-> "list", data |-> MakeModels,
                  todo |-> DOMAIN args.modelMapping,
                  done |-> (DOMAIN args.modelMapping = {})]
    /\ UNCHANGED <<store, starCache, ready, checkGithubStar, reqs, initial, args, checkReadyFunc, metrics>>

\* one iteration of the range over modelMapping, in any order of the keys
BuildModelsVisit ==
    /\ result.fn = "models" /\ ~result.done
    /\ \E modelName \in result.todo :
          result' = [result EXCEPT
                        !.data = VisitModel(@, modelName, args.modelMapping[modelName],
                                            args.type),
                        !.todo = @ \ {modelName},
                        !.done = (result.todo = {modelName})]
    /\ UNCHANGED <<store, starCache, ready, checkGithubStar, reqs, initial, args, checkReadyFunc, metrics>>

NextModels == BuildModelsResponse \/ BuildModelsVisit

SpecModels == InitModels /\ [][NextModels]_vars

\* ------------------------------------------------------------------ properties
Completions == {rq \in Live : rq.mode = "completion"}
Started == {rq \in Completions : rq.phase = "gate"}
Weight(rq) == QuotaWeight(rq.model)

\* the request got exactly this one terminal response and was not resumed
Rejected(rq, status, code) ==
    /\ rq.resumed = 0
    /\ rq.resp = <<[status |-> status, code |-> code, data |-> NoData]>>

\* the request was resumed once and got no response from the plugin
Resumed(rq) == rq.resumed = 1 /\ rq.resp = <<>>

\* the number of gate reads issued for the request
GateCalls(rq) == IF rq.starSeen \in {"error", "true", "other"} THEN 1 ELSE 0

\* the request has read both counters and computed the remaining quota
Checked == {rq \in Started : Weight(rq) > 0 /\ rq.checked}

\* C1: every chat-completion request whose body phase has started is
\* resumed, answered, or still has a store call in flight that will lead to
\* one of the two -- also when a store operation fails synchronously.
C1_StartedRequestTerminatesOrWaits ==
    \A rq \in Started : Terminal(rq) \/ rq.calls # {}

\* C2: a request of weight w > 0 whose total and used reads give
\* total - used < w is rejected with 403 insufficient_quota, is never resumed
\* and issues no increment, so it leaves used(u) unchanged.
C2_InsufficientQuotaRejected ==
    \A rq \in Checked :
        rq.total - rq.used < Weight(rq) =>
            /\ Rejected(rq, 403, "quota-check.insufficient_quota")
            /\ rq.incrIssued = 0 /\ rq.writes = 0 /\ rq.calls = {}

C2_Witness ==
    \E rq \in Checked :
        /\ rq.total - rq.used < Weight(rq)
        /\ rq.total > rq.used
        /\ Rejected(rq, 403, "quota-check.insufficient_quota")

\* C3: a request of weight w > 0 with sufficient quota whose deduct header
\* is absent or differs from the configured value issues no increment and
\* does not modify used(u).
C3_NoDeductionWithoutHeader ==
    \A rq \in Checked :
        (rq.total - rq.used >= Weight(rq) /\ ~rq.shouldDeduct) =>
            rq.incrIssued = 0 /\ rq.writes = 0

C6_BoundedOvershoot ==
    \A u \in Users :
        StoreInt(store[Key("used", u)])
            <= StoreInt(store[Key("total", u)]) + ModelQuotaWeights["gpt-4"]

C10_NonTrueFlagRejected ==
    \A rq \in Started :
        rq.starSeen = "other" =>
            /\ Rejected(rq, 403, "ai-gateway.star_required")
            /\ rq.issued = 1 /\ rq.incrIssued = 0 /\ rq.writes = 0
            /\ rq.calls = {} /\ ~rq.cached /\ ~rq.checked

C10_Witness ==
    \E rq \in Started :
        /\ rq.starSeen = "other" /\ Weight(rq) > 0
        /\ store[Key("star", rq.userId)] = Absent
        /\ Rejected(rq, 403, "ai-gateway.star_required")

\* C5: for every request, completion or admin, at most one store call
\* issued for it is in flight, a further call is issued only by the callback
\* of the previous one, and none is in flight once the request was resumed
\* or answered.
C5_OneCallInFlight ==
    \A rq \in Live :
        /\ Cardinality(rq.calls) <= 1
        /\ \A c \in rq.calls : c.n = rq.issued
        /\ Terminal(rq) => rq.calls = {}

C5_Witness ==
    /\ \E rq \in Started : \E c \in rq.calls : c.cont = "incr" /\ rq.issued = 3
    /\ \E rq \in Live : rq.mode \in AdminWrites /\ Cardinality(rq.calls) = 1

\* an admin operation has written used(u)
AdminWroteUsed(u) ==
    \E a \in Live :
        a.mode \in {"used_refresh", "used_delta"} /\ a.userId = u /\ a.writes > 0

\* the request was resumed after its increment of weight w > 0 was answered
Deducted == {rq \in Started : Weight(rq) > 0 /\ rq.resumed > 0}

\* C7 as stated: a request resumed after deducting w got from its increment
\* a value used_after >= used_before + w, used_before being the used value
\* it read, whatever other completion and admin requests did meanwhile.
C7_IncrementAboveReadValue ==
    \A rq \in Deducted : rq.newUsed >= rq.used + Weight(rq)

\* C7: a request resumed after deducting w got from its increment a value
\* used_after >= w, and used_after >= used_before + w as long as no admin
\* operation has written used(u).
C7_IncrementAboveReadValueUnlessRewritten ==
    \A rq \in Deducted :
        /\ rq.newUsed >= Weight(rq)
        /\ rq.checked /\ rq.incrIssued = 1
        /\ ~AdminWroteUsed(rq.userId) => rq.newUsed >= rq.used + Weight(rq)

C7_Witness ==
    \E rq \in Deducted :
        /\ rq.newUsed > rq.used + Weight(rq)
        /\ ~AdminWroteUsed(rq.userId)

\* the admin body handler has just run for rq in this step
JustHandled(rq) ==
    /\ rq.mode \in AdminWrites /\ rq.phase = "admin"
    /\ CopiesIn(rq, reqs') > CopiesIn(rq, reqs)
    /\ \E b \in Live :
          /\ b.mode = rq.mode /\ b.phase = "buffering"
          /\ CopiesIn(b, reqs') < CopiesIn(b, reqs)

\* C11: when setStarStatus accepts gate-set(u, v), the cache entry of u is
\* dropped before the SET is dispatched, so the cache holds no entry for u
\* when the handler returns, whether the SET was dispatched or failed at once.
C11_GateSetInvalidatesCache ==
    [][\A rq \in BagToSet(reqs') :
          (JustHandled(rq) /\ rq.mode = "star_set" /\ StarParamsOk(rq)) =>
              /\ starCache'[rq.userId] = "none"
              /\ \A c \in rq.calls : c.st = "pending" /\ c.cmd = "set"]_vars

C11_Witness ==
    /\ \E rq \in Live :
          /\ rq.mode = "star_set" /\ StarParamsOk(rq)
          /\ \E c \in rq.calls : c.st = "pending"
          /\ starCache[rq.userId] = "none"
    /\ \E rq \in Started : rq.cached

\* C12: the gate cache holds only positive entries: whatever completion
\* requests, gate queries and gate sets have run, every identity is either
\* not cached or cached as true, and a lookup hits exactly the latter.
C12_CacheOnlyPositive ==
    \A u \in Users :
        /\ starCache[u] \in {"none", "true"}
        /\ CheckStarCache(starCache, u) <=> starCache[u] = "true"
        /\ starCache[u] = "true" => \E rq \in Live : rq.cached

C12_Witness ==
    /\ \E rq \in Live :
          /\ rq.mode = "star_query" /\ rq.resp # <<>>
          /\ rq.resp[1].code = "ai-gateway.querystar" /\ rq.resp[1].data.star = StrFalse
          /\ starCache[rq.userId] = "none"
    /\ \E rq \in Started : rq.starSeen = "other"

\* the admin requests whose admin header is missing or is not the key
Unauthorized ==
    {rq \in Live : rq.mode \in AdminModes
                   /\ (~rq.adminHdr.present \/ rq.adminHdr.value # AdminKey)}

\* C13: an admin request of any sub-operation whose admin header is missing
\* or differs from admin_key is answered 403 unauthorized in the header
\* phase; no store operation is issued or attempted for it, and the step
\* that answers it leaves the gate cache and the store as they were.
C13_UnauthorizedAdminRefused ==
    /\ [](\A rq \in Unauthorized :
            /\ Rejected(rq, 403, "ai-gateway.unauthorized")
            /\ rq.phase = "headers" /\ rq.ret = "Continue"
            /\ rq.issued = 0 /\ rq.syncErrs = 0 /\ rq.calls = {}
            /\ rq.writes = 0 /\ ~rq.cached)
    /\ [][(\E rq \in Unauthorized' : CopiesIn(rq, reqs') > CopiesIn(rq, reqs)) =>
              starCache' = starCache /\ store' = store]_vars

C13_Witness ==
    \A mode \in {"refresh", "star_set"} :
        \E rq \in Unauthorized :
            /\ rq.mode = mode /\ rq.adminHdr.present
            /\ Rejected(rq, 403, "ai-gateway.unauthorized")

\* C14: a request has at most one terminal action: it is never both resumed
\* and answered, never answered or resumed twice; once it is terminal it has
\* no call in flight and nothing about it changes any more, so no
\* continuation issues a call for it or runs the gate again.
C14_SingleTerminalAction ==
    /\ [](\A rq \in Live :
            /\ rq.resumed + Len(rq.resp) <= 1
            /\ Terminal(rq) => rq.calls = {})
    /\ [][\A rq \in Live :
             Terminal(rq) => CopiesIn(rq, reqs') >= CopiesIn(rq, reqs)]_vars

C14_Witness ==
    /\ \E rq \in Started : Resumed(rq) /\ rq.issued = 3
    /\ \E rq \in Live :
          /\ rq.mode \in AdminWrites /\ rq.issued = 1
          /\ rq.resumed = 0 /\ Len(rq.resp) = 1

\* every store call has been answered and handled, and every admin write
\* that reached the store was acknowledged with 200
AtRest ==
    \A rq \in Live :
        /\ rq.calls = {}
        /\ (rq.mode \in AdminWrites /\ rq.issued > 0) =>
                Rejected(rq, 200, AdminSuccessCode(rq.mode))

\* C15: starting from non-negative counters, after any sequence of
\* successfully completed admin operations and completion requests,
\* total(u) >= 0 and used(u) >= 0 hold at rest for every identity u.
C15_CountersNonNegativeAtRest ==
    AtRest =>
        \A u \in Users :
            /\ StoreIntOk(store[Key("total", u)]) /\ StoreInt(store[Key("total", u)]) >= 0
            /\ StoreIntOk(store[Key("used", u)]) /\ StoreInt(store[Key("used", u)]) >= 0

\* the query mode that reads the key a mutation writes
QueryOf(mode) ==
    IF AdminKeyKind(mode) = "total" THEN "query"
    ELSE IF AdminKeyKind(mode) = "used" THEN "used_query" ELSE "star_query"

\* qy is a query of the key r wrote, started when the store held what r
\* wrote, answered by the store without error, and nobody else wrote
QueryFollows(r, qy) ==
    /\ Rejected(r, 200, AdminSuccessCode(r.mode)) /\ r.writes = 1
    /\ qy.mode = QueryOf(r.mode) /\ qy.userId = r.userId
    /\ qy.issued = 1 /\ qy.errs = {} /\ qy.resp # <<>>
    /\ \A o \in Live : (o # r /\ o # qy) => o.writes = 0
    /\ CopiesIn(r, reqs) = 1

\* C16: a successful refresh(u, q) of the total or of the used counter,
\* followed by query(u) with no other write, is answered 200 with quota = q,
\* for every integer q that refresh accepts.
C16_RefreshQueryRoundTrip ==
    \A r \in Live, qy \in Live :
        (/\ r.mode \in {"refresh", "used_refresh"}
         /\ QueryFollows(r, qy)
         /\ qy.snap = Stored(Sprint(Atoi(r.param)))) =>
            qy.resp = <<[status |-> 200, code |-> "ai-gateway.queryquota",
                         data |-> [quota |-> Atoi(r.param), star |-> <<>>]]>>

\* r is a delta of the total or of the used counter, acknowledged with 200
DeltaDone(r) ==
    /\ r.mode \in {"delta", "used_delta"} /\ AtoiOk(r.param)
    /\ Rejected(r, 200, AdminSuccessCode(r.mode)) /\ r.writes = 1

\* C17: a successful delta(u, +a) and a successful delta(u, -a) on the same
\* counter, with no other write, leave the stored counter at its original
\* value (an absent counter counting as 0), for total and for used.
C17_DeltaRoundTrip ==
    \A up \in Live, down \in Live :
        (/\ DeltaDone(up) /\ DeltaDone(down)
         /\ up.mode = down.mode /\ up.userId = down.userId
         /\ Atoi(up.param) >= 0 /\ Atoi(down.param) = 0 - Atoi(up.param)
         /\ \A o \in Live : (o # up /\ o # down) => o.writes = 0
         /\ CopiesIn(up, reqs) = 1 /\ CopiesIn(down, reqs) = 1) =>
            LET k == Key(AdminKeyKind(up.mode), up.userId)
            IN  /\ StoreIntOk(store[k])
                /\ StoreInt(store[k]) = StoreInt(initial[k])

C17_Witness ==
    \E up \in Live, down \in Live :
        /\ DeltaDone(up) /\ DeltaDone(down) /\ up.mode = "used_delta" /\ down.mode = up.mode
        /\ Atoi(up.param) > 0 /\ Atoi(down.param) = 0 - Atoi(up.param)
        /\ up.snap = Absent /\ down.snap = Counter(Atoi(up.param))
        /\ store[Key("used", up.userId)] = Counter(0)

\* what a request has added to used(u): its weight per applied increment for
\* a completion, its delta per applied command for an admin used-delta
Applied(rq, u) ==
    IF rq.userId # u THEN 0
    ELSE IF rq.mode = "completion" THEN rq.writes * Weight(rq)
    ELSE IF rq.mode = "used_delta" /\ AtoiOk(rq.param) THEN rq.writes * Atoi(rq.param)
    ELSE 0

RECURSIVE SumApplied(_, _)
SumApplied(S, u) ==
    IF S = {} THEN 0
    ELSE LET rq == CHOOSE x \in S : TRUE
         IN  CopiesIn(rq, reqs) * Applied(rq, u) + SumApplied(S \ {rq}, u)

\* no admin refresh has written used(u)
NoUsedRefresh(u) ==
    \A a \in Live : (a.mode = "used_refresh" /\ a.userId = u) => a.writes = 0

\* C18: whatever the interleaving of deducting completions and admin deltas
\* of used(u), with no refresh of it, the stored used(u) is its initial value
\* plus the weights of the deductions applied plus the deltas applied.
C18_NoLostUpdates ==
    \A u \in Users :
        NoUsedRefresh(u) =>
            /\ StoreIntOk(store[Key("used", u)])
            /\ StoreInt(store[Key("used", u)]) =
                   StoreInt(initial[Key("used", u)]) + SumApplied(Live, u)

C18_Witness ==
    \E rq \in Completions, a \in Live :
        /\ a.mode = "used_delta" /\ a.userId = rq.userId /\ AtoiOk(a.param)
        /\ a.writes = 1 /\ rq.writes = 1 /\ a.calls = {} /\ rq.calls = {}
        /\ rq.resumed = 1
        /\ rq.newUsed = rq.used + Atoi(a.param) + Weight(rq)
        /\ store[Key("used", rq.userId)] = Counter(rq.newUsed)

C20_ContinuationExactlyOnce ==
    \A rq \in Live :
        (rq.calls = {} /\ ~rq.gone) => rq.invoked = rq.issued + rq.syncErrs

\* C21: as long as the client is not ready (every deferred re-initialization
\* so far has failed), every operation submitted has returned its error at
\* once: no command was dispatched, no call is in flight, no continuation
\* has run, and the client is still not ready.
C21_NotReadyFailsFast ==
    ~ready => \A rq \in Live : rq.issued = 0 /\ rq.calls = {} /\ rq.invoked = 0

C21_Witness ==
    /\ ~ready
    /\ \E rq \in Started : rq.syncErrs >= 1 /\ rq.issued = 0 /\ rq.invoked = 0

\* C22: every classified store error, from the status code, the host error
\* text or a parse failure, has Retryable and Temporary both false when its
\* type is Auth or Protocol and both true for every other type.
C22_FlagsFollowType ==
    (result.fn = "response" /\ result.failed) =>
        IF result.err.type \in {"auth", "protocol"}
        THEN ~result.err.retryable /\ ~result.err.temporary
        ELSE result.err.retryable /\ result.err.temporary

\* C23: for every configured admin path A, a request path ending in
\* /v1/chat/completions + A + /used/refresh, /used/delta or /star/set is
\* classified as admin used_refresh, used_delta or star_set respectively,
\* and every path gets one of the modes of the table.
C23_LongSuffixWins ==
    result.fn = "mode" =>
        /\ \/ result.chatMode = "admin" /\ result.adminMode \in AdminModes
           \/ result.chatMode \in {"completion", "none"} /\ result.adminMode = "none"
        /\ args.pathAdmin = args.adminPath =>
              /\ args.tail = <<"/", "u", "s", "e", "d", "/", "r", "e", "f", "r", "e", "s", "h">> => result = [fn |-> "mode"] @@ Mode("admin", "used_refresh")
              /\ args.tail = <<"/", "u", "s", "e", "d", "/", "d", "e", "l", "t", "a">> => result = [fn |-> "mode"] @@ Mode("admin", "used_delta")
              /\ args.tail = <<"/", "s", "t", "a", "r", "/", "s", "e", "t">> => result = [fn |-> "mode"] @@ Mode("admin", "star_set")

C23_Witness ==
    /\ result.fn = "mode" /\ result.adminMode = "used_refresh"
    /\ args.pathAdmin = args.adminPath /\ args.adminPath = <<"/", "q", "u", "o", "t", "a", "/", "u", "s", "e", "d">>
    /\ args.tail = <<"/", "u", "s", "e", "d", "/", "r", "e", "f", "r", "e", "s", "h">> /\ args.prefix # <<>>

\* the header phase of a completion request must fail on this token header:
\* header missing or empty, token empty, token unparsable, or no identity
\* claim at all in the token
HeaderFails(h) ==
    \/ ~h.present
    \/ h.token.raw = ""
    \/ ~h.token.parsable
    \/ h.token.universal_id = NoClaim /\ h.token.id = NoClaim

TokenErrors ==
    {"ai-gateway.no_token", "ai-gateway.invalid_token",
     "ai-gateway.token_parse_failed", "ai-gateway.no_userid"}

\* the request was answered in its header phase
FailedHeaders(rq) == rq.mode = "completion" /\ rq.phase = "headers"

\* C24: a completion request failing the header phase is answered with 401,
\* body buffering is not requested, and no store call is ever issued or
\* attempted for it: its record never changes again.
C24_HeaderFailureIsFinal ==
    /\ [](\A rq \in Live :
            FailedHeaders(rq) =>
                /\ \E code \in TokenErrors : Rejected(rq, 401, code)
                /\ rq.ret = "Continue"
                /\ rq.issued = 0 /\ rq.syncErrs = 0 /\ rq.calls = {})
    /\ [][/\ \A h \in TokenHeaders :
               (HeaderFails(h) /\ reqs' = reqs (+) SetToBag({CompletionHeadersResult(h)}))
                   => FailedHeaders(CompletionHeadersResult(h))
          /\ \A rq \in Live :
               FailedHeaders(rq) => CopiesIn(rq, reqs') >= CopiesIn(rq, reqs)]_vars

C24_Witness ==
    /\ \E rq \in Live : FailedHeaders(rq) /\ Rejected(rq, 401, "ai-gateway.invalid_token")
    /\ \E rq \in Live : FailedHeaders(rq) /\ Rejected(rq, 401, "ai-gateway.no_token")

\* the identity a token carries: universal_id when present, else id
Identity(tok) == IF tok.universal_id # NoClaim THEN tok.universal_id ELSE tok.id

\* C25: a parsable token with a non-empty universal_id or, failing that, a
\* non-empty legacy id is accepted with that identity, and every store key
\* of the request is built from it.
C25_IdentityFallsBackToId ==
    /\ [](\A rq \in Completions : \A c \in rq.calls : c.key.u = rq.userId)
    /\ [][\A h \in TokenHeaders :
            (/\ h.present /\ h.token.parsable /\ Identity(h.token) # NoClaim
             /\ reqs' = reqs (+) SetToBag({CompletionHeadersResult(h)}))
                => /\ CompletionHeadersResult(h).phase = "buffering"
                   /\ CompletionHeadersResult(h).userId = Identity(h.token)]_vars

\* the keys the catalogue lists: not the wildcard, not ending in the
\* wildcard, mapped to a non-empty value
Listed(mapping) ==
    {k \in DOMAIN mapping : k # <<"*">> /\ k[Len(k)] # "*" /\ mapping[k] # ""}

\* the owner the catalogue names for a provider type
OwnedBy(type) ==
    IF type = "openai" THEN "openai"
    ELSE IF type = "azure" THEN "openai-internal"
    ELSE IF type = "qwen" THEN "alibaba"
    ELSE IF type = "moonshot" THEN "moonshot"
    ELSE IF type = "claude" THEN "anthropic"
    ELSE IF type = "gemini" THEN "google"
    ELSE type

\* C26: the finished catalogue is an array, never null, that holds exactly
\* one entry {id: k, object: "model", created: 1686935002, owned_by: f(type)}
\* for each listed key k of model_mapping and nothing else.
C26_CatalogueListsMappedModels ==
    (result.fn = "models" /\ result.done) =>
        LET items == result.data.items
        IN  /\ result.object = "list"
            /\ ~result.data.isNil
            /\ Len(items) = Cardinality(Listed(args.modelMapping))
            /\ \A k \in Listed(args.modelMapping) :
                  \E i \in 1..Len(items) :
                      items[i] = [id |-> k, object |-> "model", created |-> 1686935002,
                                  owned_by |-> OwnedBy(args.type)]

C26_Witness ==
    /\ result.fn = "models" /\ result.done
    /\ DOMAIN args.modelMapping = ModelKeys
    /\ args.type = "qwen"
    /\ result.data.items = <<[id |-> <<"g", "p", "t", "-", "4">>, object |-> "model",
                               created |-> 1686935002, owned_by |-> "alibaba"]>>

\* C27: the only store write a completion request issues is the increment
\* of used(u) for its own identity u; with completion requests alone, the
\* total counter and the gate flag of every identity stay as they were.
C27_GateWritesOnlyUsed ==
    /\ \A rq \in Completions : \A c \in rq.calls :
          \/ c.cmd = "get"
          \/ c.cmd = "incrby" /\ c.key = Key("used", rq.userId)
    /\ \A u \in Users :
          /\ store[Key("total", u)] = initial[Key("total", u)]
          /\ store[Key("star", u)] = initial[Key("star", u)]

C27_Witness ==
    \E rq \in Started :
        /\ rq.writes = 1 /\ rq.resumed = 1 /\ rq.starSeen = "true"
        /\ store[Key("used", rq.userId)] # initial[Key("used", rq.userId)]

\* a gate-set of "true" that was acknowledged with 200
GateSetTrueDone(rq) ==
    /\ rq.mode = "star_set" /\ rq.param = StrTrue /\ rq.userId \in Users
    /\ Rejected(rq, 200, AdminSuccessCode(rq.mode)) /\ rq.writes = 1 /\ rq.calls = {}

\* C28: after one successful gate-set(u, "true") and after two of them, with
\* no other request, the stored flag is "true" and the cache has no entry
\* for u, whatever the flag and the cache held before.
C28_GateSetIdempotent ==
    (reqs # EmptyBag /\ \A rq \in Live : GateSetTrueDone(rq)) =>
        \A rq \in Live :
            /\ store[Key("star", rq.userId)] = Stored(StrTrue)
            /\ starCache[rq.userId] = "none"

C28_Witness ==
    /\ BagCardinality(reqs) = 2
    /\ \A rq \in Live : GateSetTrueDone(rq)
    /\ \E rq \in Live : rq.hadEntry
    /\ \E rq \in Live : ~rq.hadEntry /\ rq.snap = Stored(StrTrue)

\* a gate-set for u has been handled and its store write is not over
GateSetInFlight(u) ==
    \E rq \in Live : rq.mode = "star_set" /\ rq.userId = u /\ rq.calls # {}

\* C29: whenever no gate-set for u is in flight, a cache entry for u means
\* that the stored gate flag of u is "true" -- also when a read of the flag
\* was in flight while a gate-set ran.
C29_CacheCoherent ==
    \A u \in Users :
        (~GateSetInFlight(u) /\ CheckStarCache(starCache, u)) =>
            store[Key("star", u)] = Stored(StrTrue)

\* the body-phase handler has just run for the completion request rq
BodyJustHandled(rq) ==
    /\ rq.mode = "completion" /\ rq.phase = "gate"
    /\ CopiesIn(rq, reqs') > CopiesIn(rq, reqs)
    /\ \E b \in Live : /\ b.mode = "completion" /\ b.phase = "buffering"
                       /\ CopiesIn(b, reqs') < CopiesIn(b, reqs)

\* C30: when the body-phase handler returns Pause for a completion request,
\* a store call of the request is in flight and the request has not been
\* resumed, on every path and for every weight.
C30_PauseMeansCallInFlight ==
    [][\A rq \in BagToSet(reqs') :
          (BodyJustHandled(rq) /\ rq.ret = "Pause") =>
              rq.calls # {} /\ rq.resumed = 0]_vars

\* the request ended with a reject response: a terminal 4xx or 5xx answer
EndedRejected(rq) ==
    /\ rq.mode = "completion" /\ rq.calls = {}
    /\ \E i \in 1..Len(rq.resp) : rq.resp[i].status >= 400

\* C31: a completion request that ends with a reject response, the responses
\* 500 deduction_inconsistent and 500 deduction_failed included, has not
\* modified the used counter of its user.
C31_RejectLeavesUsedUntouched ==
    \A rq \in Completions : EndedRejected(rq) => rq.writes = 0

\* the counter kinds QuotaCheck reads, with the codes of their rejections
CounterKinds == {"total", "used"}
InvalidCode(k) ==
    IF k = "total" THEN "quota-check.invalid_total_quota"
    ELSE "quota-check.invalid_used_quota"
ReadErrorCode(k) ==
    IF k = "total" THEN "quota-check.total_quota_error"
    ELSE "quota-check.used_quota_error"

\* the value QuotaCheck took for a counter
Taken(rq, k) == IF k = "total" THEN rq.total ELSE rq.used

\* the request went on after reading the counter k
WentOn(rq, k) ==
    /\ Taken(rq, k) = 0
    /\ \A i \in 1..Len(rq.resp) : rq.resp[i].code \notin {InvalidCode(k), ReadErrorCode(k)}

\* the text is a decimal integer that is not negative
ValidCounterText(s) == AtoiOk(s) /\ Atoi(s) >= 0

\* completion requests whose QuotaCheck was answered the counter k
Answered(k) ==
    {rq \in Completions : rq.seen[k].t \notin {"none", "error"}}

\* C32 as stated: in QuotaCheck an absent total or used key counts as 0 and is
\* never an error, while a present value that is not a decimal integer or is
\* negative ends the request with 500 invalid_total_quota or
\* invalid_used_quota, and no increment is issued.
C32_AbsentIsZeroMalformedIs500 ==
    \A k \in CounterKinds : \A rq \in Answered(k) :
        /\ rq.seen[k].t = "null" => WentOn(rq, k)
        /\ (rq.seen[k].t = "bulk" /\ ~ValidCounterText(rq.seen[k].s)) =>
              Rejected(rq, 500, InvalidCode(k)) /\ rq.incrIssued = 0

\* C32: in QuotaCheck a total or used key that is absent, or present with the
\* empty text, counts as 0 and is never an error, while a present non-empty
\* value that is not a decimal integer or is negative ends the request with
\* 500 invalid_total_quota or invalid_used_quota, and no increment is issued.
C32_AbsentOrEmptyIsZeroMalformedIs500 ==
    \A k \in CounterKinds : \A rq \in Answered(k) :
        /\ (rq.seen[k].t = "null" \/ rq.seen[k].s = <<>>) => WentOn(rq, k)
        /\ (rq.seen[k].t = "bulk" /\ rq.seen[k].s # <<>>
               /\ ~ValidCounterText(rq.seen[k].s)) =>
              Rejected(rq, 500, InvalidCode(k)) /\ rq.incrIssued = 0

\* a request read a valid total and a negative used counter and was answered
\* 500 invalid_used_quota
C32_Witness ==
    \E rq \in Answered("used") :
        /\ rq.seen["total"] = BulkValue(Sprint(MaxInitQuota))
        /\ rq.seen["used"] = BulkValue(Sprint(0 - 1))
        /\ Rejected(rq, 500, InvalidCode("used"))

\* a text that is an integer: decimal digits after an optional sign
IntegerText(s) ==
    /\ Len(s) > 0
    /\ LET d == IF s[1] \in {"-", "+"} THEN Tail(s) ELSE s
       IN  Len(d) > 0 /\ \A i \in 1..Len(d) : d[i] \in {DigitChars[j] : j \in 1..10}

\* the parameters of an authorized mutation are bad
BadParams(rq) ==
    /\ rq.mode \in AdminWrites /\ rq.phase = "admin" /\ AdminAuthorized(rq.adminHdr)
    /\ \/ rq.userId = ""
       \/ rq.mode # "star_set" /\ ~IntegerText(rq.param)
       \/ rq.mode = "star_set" /\ rq.param \notin {StrTrue, StrFalse}

\* C33: an authorized admin mutation with bad parameters (empty user_id,
\* non-integer quota or value, star_value other than "true" and "false") is
\* answered with 400 and changes nothing: no store operation is issued for
\* it, and its handler leaves the store and the gate cache as they were.
C33_BadParamsChangeNothing ==
    /\ [](\A rq \in Live :
            BadParams(rq) =>
                /\ Rejected(rq, 400, "ai-gateway.invalid_params")
                /\ rq.issued = 0 /\ rq.syncErrs = 0 /\ rq.calls = {} /\ rq.writes = 0)
    /\ [][\A rq \in BagToSet(reqs') :
            (JustHandled(rq) /\ BadParams(rq)) =>
                starCache' = starCache /\ store' = store]_vars

\* a gate-set of a cached user with a bad star_value was answered 400 and the
\* cache still holds the entry; a refresh with a non-integer quota was too
C33_Witness ==
    /\ \E rq \in Live :
          /\ rq.mode = "star_set" /\ rq.userId \in Users /\ rq.param = StrJunk
          /\ BadParams(rq) /\ rq.hadEntry
          /\ Rejected(rq, 400, "ai-gateway.invalid_params")
          /\ starCache[rq.userId] = "true"
    /\ \E rq \in Live :
          /\ rq.mode \in {"refresh", "used_delta"} /\ rq.userId \in Users
          /\ BadParams(rq) /\ Rejected(rq, 400, "ai-gateway.invalid_params")

\* the store answers, in this step, the AtomicQuotaCheck call c of rq: r2 is
\* the record of the request afterwards and c2 the call with its reply
AtomicAnswered(rq, c, r2, c2) ==
    /\ c.cmd = "eval" /\ c.st = "pending"
    /\ c2 = [c EXCEPT !.st = "replied", !.reply = c2.reply]
    /\ r2.calls = (rq.calls \ {c}) \cup {c2}
    /\ CopiesIn(rq, reqs') < CopiesIn(rq, reqs)
    /\ CopiesIn(r2, reqs') > CopiesIn(r2, reqs)

\* both counters of the call are absent or hold an integer
IntegerCounters(c) == StoreIntOk(store[TotalKeyOf(c)]) /\ StoreIntOk(store[UsedKeyOf(c)])

\* C34: AtomicQuotaCheck runs as one store step over the keys total and used
\* and the argument weight: with total and used read as integers (absent =
\* 0), used is incremented by weight if and only if total - used >= weight,
\* nothing else is written, and the reply is [total, used_before, remaining,
\* d] with d = 1 exactly when the increment was performed, else d = 0.
C34_AtomicGateScript ==
    [][\A rq \in Live : \A c \in rq.calls :
          \A r2 \in BagToSet(reqs') : \A c2 \in r2.calls :
              (AtomicAnswered(rq, c, r2, c2) /\ IntegerCounters(c)) =>
                  LET total == StoreInt(store[TotalKeyOf(c)])
                      used == StoreInt(store[UsedKeyOf(c)])
                      weight == c.arg.n
                      d == IF total - used >= weight THEN 1 ELSE 0
                  IN  /\ c2.reply = ArrayValue(<<total, used, total - used, d>>)
                      /\ StoreInt(store'[UsedKeyOf(c)]) = used + d * weight
                      /\ d = 0 => store' = store
                      /\ \A k \in Keys : k # UsedKeyOf(c) => store'[k] = store[k]]_vars

\* two calls were answered over an allowance that admits one of them: the
\* first with d = 1, the second with d = 0
C34_Witness ==
    /\ \E rq \in Live :
          rq.seen["caller"] = ArrayValue(<<MaxInitQuota, 0, MaxInitQuota, 1>>)
    /\ \E rq \in Live :
          rq.seen["caller"] = ArrayValue(<<MaxInitQuota, MaxInitQuota, 0, 0>>)

\* the only call of a request that has one in flight
TheCall(rq) == CHOOSE c \in rq.calls : TRUE

\* the read-read-increment chain with deduction, from processQuotaLogic to
\* handleQuotaDeductionResponse, run alone for one request of u over the store
\* st with every command answered by the store: the record of the request
\* and the store it leaves
ChainRun(st, u, model) ==
    LET rq0 == [NewReq("completion") EXCEPT !.userId = u, !.model = model, !.phase = "gate"]
        r1 == ProcessQuotaLogic(rq0, DeductHeaderValue, TRUE, TRUE, TRUE).rq
    IN  IF r1.calls = {} THEN [rq |-> r1, store |-> st]
        ELSE
        LET c1 == TheCall(r1)
            r2 == HandleTotalQuotaResponse(Deliver(r1, c1), RedisReply(c1, st[c1.key]),
                                           TRUE, TRUE, TRUE).rq
        IN  IF r2.calls = {} THEN [rq |-> r2, store |-> st]
            ELSE
            LET c2 == TheCall(r2)
                r3 == HandleUsedQuotaResponse(Deliver(r2, c2), RedisReply(c2, st[c2.key]),
                                              TRUE, TRUE, TRUE).rq
            IN  IF r3.calls = {} THEN [rq |-> r3, store |-> st]
                ELSE
                LET c3 == TheCall(r3)
                IN  [rq |-> HandleQuotaDeductionResponse(
                                Deliver(r3, c3), RedisReply(c3, st[c3.key]), TRUE).rq,
                     store |-> [st EXCEPT ![c3.key] = RedisEffect(c3, @)]]

\* the counters of u in the initial store are integers with used <= total
InitiallyWithin(u) ==
    /\ StoreIntOk(initial[Key("total", u)]) /\ StoreIntOk(initial[Key("used", u)])
    /\ StoreInt(initial[Key("used", u)]) <= StoreInt(initial[Key("total", u)])

\* C35: with AtomicQuotaCheck calls of non-negative weights as the only
\* writers, used(u) <= total(u) holds in every reachable state if it holds
\* initially; and a single call run in isolation takes the same decision and
\* leaves the same used(u) as the read-read-increment chain with deduction.
C35_AtomicGateRefinesChain ==
    \A u \in Users :
        InitiallyWithin(u) =>
            /\ StoreInt(store[Key("used", u)]) <= StoreInt(store[Key("total", u)])
            /\ \A rq \in Live : \A c \in rq.calls :
                  (/\ BagCardinality(reqs) = 1 /\ rq.userId = u
                   /\ c.cmd = "eval" /\ c.st = "replied" /\ c.status = 0) =>
                      \A model \in Models :
                          QuotaWeight(model) = c.arg.n =>
                              LET chain == ChainRun(initial, u, model)
                              IN  /\ (c.reply.t = "array" /\ c.reply.s[4] = 1)
                                         <=> chain.rq.resumed > 0
                                  /\ store[Key("used", u)].present
                                         => StoreIntOk(chain.store[Key("used", u)])
                                  /\ StoreInt(store[Key("used", u)])
                                         = StoreInt(chain.store[Key("used", u)])

\* sums over the requests of a bag, with their multiplicity
RECURSIVE SumIssued(_)
SumIssued(S) ==
    IF S = {} THEN 0
    ELSE LET rq == CHOOSE x \in S : TRUE
         IN  CopiesIn(rq, reqs) * rq.issued + SumIssued(S \ {rq})

RECURSIVE SumSyncErrs(_)
SumSyncErrs(S) ==
    IF S = {} THEN 0
    ELSE LET rq == CHOOSE x \in S : TRUE
         IN  CopiesIn(rq, reqs) * rq.syncErrs + SumSyncErrs(S \ {rq})

RECURSIVE SumInFlight(_)
SumInFlight(S) ==
    IF S = {} THEN 0
    ELSE LET rq == CHOOSE x \in S : TRUE
         IN  CopiesIn(rq, reqs) * Cardinality(rq.calls) + SumInFlight(S \ {rq})

\* C36: the client never executes a retry: every call is dispatched to the
\* host exactly once whatever the class of its error and the retry policy
\* (no retry attempt is ever counted, a dispatched call is in flight or has
\* had its continuation invoked once), and a call that fails, retryable or
\* not, hands its continuation an error value naming the class of the error.
C36_NoRetryExecuted ==
    /\ metrics.retries = 0
    /\ SumIssued(Live) <= metrics.total
    /\ metrics.total <= SumIssued(Live) + SumSyncErrs(Live)
    /\ \A rq \in Live :
          /\ rq.issued = rq.invoked + Cardinality(rq.calls)
          /\ \A c \in rq.calls :
                (c.st = "replied" /\ c.status # 0) =>
                    /\ c.reply.t = "error"
                    /\ c.reply.s = <<ClassifyRedisError(c.status, NoErr).type>>
          /\ \A c \in rq.calls : c.st = "pending" => rq.seen[c.cont] = NotSeen

\* the continuation of one call was handed a retryable error, that of
\* another an error that is not retryable
C36_Witness ==
    /\ \E rq \in Live :
          rq.issued = 1 /\ rq.invoked = 1 /\ rq.seen["caller"] = ClassifiedError(2)
    /\ \E rq \in Live :
          rq.issued = 1 /\ rq.invoked = 1 /\ rq.seen["caller"] = ClassifiedError(3)

\* C37: every call increments the total-calls counter once on dispatch and
\* exactly one of the success and failure counters once when it finishes:
\* TotalCalls = SuccessfulCalls + FailedCalls + (calls still in flight) in
\* every state, for every outcome, retryable errors included.
C37_MetricsBalance ==
    metrics.total = metrics.success + metrics.failed + SumInFlight(Live)

\* ------------------------------------------------------------------- C38
\* the calls in flight that an admin delta request dispatched
DeltaModes == {"delta", "used_delta"}
DeltaCalls(rq) == IF rq.mode \in DeltaModes THEN {c \in rq.calls : c.cont = "admin"} ELSE {}

Magnitude(v) == IF v < 0 THEN 0 - v ELSE v

\* C38: for every signed delta value v an admin request is accepted with, the
\* most negative int included, the operand sent to the store is the
\* non-negative |v|: INCRBY v when v >= 0 and DECRBY |v| when v < 0.
C38_OperandIsMagnitude ==
    \A rq \in Live : \A c \in DeltaCalls(rq) :
        LET v == Atoi(rq.param)
        IN  /\ c.cmd = (IF v >= 0 THEN "incrby" ELSE "decrby")
            /\ c.arg.n >= 0
            /\ c.arg = IntArg(Magnitude(v))

\* the same for every accepted value but the most negative int
C38_OperandIsMagnitudeAboveMin ==
    \A rq \in Live : \A c \in DeltaCalls(rq) :
        LET v == Atoi(rq.param)
        IN  v # MinInt =>
               /\ c.cmd = (IF v >= 0 THEN "incrby" ELSE "decrby")
               /\ c.arg.n >= 0
               /\ c.arg = IntArg(Magnitude(v))

\* ------------------------------------------------------------------- C39
\* a command of the client is in flight or was answered
EverDispatched == \E rq \in Live : rq.issued > 0

\* C39: across any sequence of Init calls, succeeding or failing, and of
\* operations, a command is dispatched to the host only in a state where
\* Ready() is true, and Ready() never goes from true back to false.
C39_DispatchOnlyWhenReady ==
    /\ [](EverDispatched => ready)
    /\ [][metrics'.total > metrics.total => ready']_vars
    /\ [][ready => ready']_vars

\* Init failed, a first caller was refused or had its command fail at
\* dispatch, a later caller made the deferred initialisation succeed and its
\* command is in flight
C39_Witness ==
    /\ checkReadyFunc = "deferred" /\ ready
    /\ \E a \in Live, b \in Live :
          /\ a.issued = 0 /\ a.syncErrs = 1
          /\ b.issued = 1 /\ \E c \in b.calls : c.st = "pending"

====
